---- MODULE Spec2Model ----
(***************************************************************************)
(* A model of the three simpyvis programs:                                 *)
(*   main.py             a vehicle moving round a cycle of waypoints       *)
(*   tank_simulation.py  a tank filled and emptied by two flows            *)
(*   tank_dash.py        the tank rendered by a pygame thread for Dash     *)
(* Each program has a shared state object guarded by state.lock, a         *)
(* simulation (or render) thread and a consumer thread.  The variable      *)
(* variant says which program a behaviour is a run of.                     *)
(*                                                                         *)
(* In main.py and tank_simulation.py no "with state.lock:" block calls      *)
(* anything that takes the lock, so a block is one step, taken when the    *)
(* lock is free.  In tank_dash.py the acquisition of the lock is a step of *)
(* its own (threading.Lock is not reentrant).  Code between two blocks     *)
(* that touches only locals is folded into the neighbouring step.          *)
(*                                                                         *)
(* Time (env.now) is counted in units of 1/36000 simulated second, a speed *)
(* factor is an exact fraction [n, d], tank volumes are counted in units   *)
(* of 1/120 litre and distances in tenths of a pixel.                      *)
(***************************************************************************)
EXTENDS Integers, Sequences, FiniteSets, TLC

VARIABLES
    variant,   \* "main", "tank" or "dash": the program that runs
    lock,      \* state.lock: "free" or the thread that holds it
    state,     \* the fields of the shared state object
    sim,       \* simulation thread: run_simulation, its engine, its process
    con,       \* consumer thread: main() of main.py / tank_simulation.py
    dash,      \* tank_dash.py: pygame_loop thread and the Dash callbacks
    g          \* history variables read by the properties only

vars == <<variant, lock, state, sim, con, dash, g>>

----------------------------------------------------------------------------
(* Bounds of the model *)

\* simulated time one engine may reach, in ticks of vehicle_process
\* (update_interval = 1/360 s): 36 ticks are one supervision slice
MaxTicks == 36
\* how often the consumer writes state.factor
MaxFactorWrites == 2
\* how often the consumer writes a flow rate
MaxFlowWrites == 1

----------------------------------------------------------------------------
(* Program constants *)

SCREEN_WIDTH == 800
SCREEN_HEIGHT == 600
MAX_VOLUME == 1000
base_speed == 150
wait_duration == 2
slider_width == 200

\* resolution of env.now: 100 units per vehicle tick of 1/360 s
UnitsPerSecond == 360 * 100
\* resolution of a volume: 1/120 litre (a flow of k/2 l/s over 1/60 s)
UnitsPerLitre == 60 * 2

\* update_interval of vehicle_process (1/360 s) and of tank_process (1/60 s)
vehicle_update_interval == UnitsPerSecond \div 360
tank_update_interval == UnitsPerSecond \div 60
\* check_interval = 0.1 s in both supervisors
check_interval == UnitsPerSecond \div 10
\* the horizon of simulated time
MaxNow == MaxTicks * vehicle_update_interval

\* None, which like the empty tuple is false in "if continue_to:"
None == <<>>

----------------------------------------------------------------------------
(* Arithmetic on exact fractions and integers (TLC integers are 32 bit)    *)

RECURSIVE GCD(_, _)
GCD(a, b) == IF b = 0 THEN a ELSE GCD(b, a % b)

Frac(n, d) == [n |-> n \div GCD(n, d), d |-> d \div GCD(n, d)]

Abs(x) == IF x < 0 THEN -x ELSE x

RECURSIVE ISqrtIn(_, _, _)
\* the largest r in lo..hi with r * r <= x
ISqrtIn(x, lo, hi) ==
    IF lo = hi THEN lo
    ELSE LET mid == (lo + hi + 1) \div 2
         IN  IF mid * mid <= x THEN ISqrtIn(x, mid, hi)
                               ELSE ISqrtIn(x, lo, mid - 1)

ISqrt(x) == ISqrtIn(x, 0, 40000)

RECURSIVE MulDivQR(_, _, _)
\* <<quotient, remainder>> of x * a / b for x >= 0 and 0 <= a <= b, without
\* forming the product x * a
MulDivQR(x, a, b) ==
    IF x = 0 THEN <<0, 0>>
    ELSE LET h == MulDivQR(x \div 2, a, b)
             r == 2 * h[2] + (IF x % 2 = 1 THEN a ELSE 0)
         IN  <<2 * h[1] + (r \div b), r % b>>

----------------------------------------------------------------------------
(* main.py: pure parts of vehicle_process and of the slider                *)

waypoints ==
    << <<50, SCREEN_HEIGHT \div 2>>,
       <<SCREEN_WIDTH - 50, SCREEN_HEIGHT \div 2>>,
       <<SCREEN_WIDTH - 50, 50>>,
       <<50, 50>>,
       <<50, SCREEN_HEIGHT - 50>>,
       <<SCREEN_WIDTH - 50, SCREEN_HEIGHT - 50>> >>

NumWaypoints == Len(waypoints)

\* waypoints[i] of the source, which counts from 0
Waypoint(i) == waypoints[(i % NumWaypoints) + 1]

\* the square of math.dist(a, b)
Dist2(a, b) == (a[1] - b[1]) * (a[1] - b[1]) + (a[2] - b[2]) * (a[2] - b[2])

\* math.dist(a, b) in tenths of a pixel, rounded down
Dist10(a, b) == ISqrt(100 * Dist2(a, b))

RECURSIVE NearestFrom(_, _, _)
\* the loop "for i, wp in enumerate(waypoints): if dist < min_dist: ..." from
\* index i on, with best the index found so far: the first nearest waypoint
NearestFrom(p, i, best) ==
    IF i >= NumWaypoints THEN best
    ELSE NearestFrom(p, i + 1,
                     IF Dist2(p, Waypoint(i)) < Dist2(p, Waypoint(best))
                     THEN i ELSE best)

Nearest(p) == NearestFrom(p, 1, 0)

\* a faulty variant of the operator below, without the step back by one
\* of line 74: C6 must reject it
InitialIdxNoStepBack(start_from, continue_to) ==
    IF continue_to # None
    THEN Nearest(continue_to)
    ELSE IF start_from # None THEN Nearest(start_from) ELSE 0

\* the index vehicle_process starts with
InitialIdx(start_from, continue_to) ==
    IF continue_to # None
    THEN (Nearest(continue_to) - 1) % NumWaypoints
    ELSE IF start_from # None THEN Nearest(start_from) ELSE 0

\* a faulty variant of the operator below, which ignores start_from: C27
\* must reject it
SegmentStartAtWaypoint(start_from, idx) == Waypoint(idx)

\* current_pos and target_pos of one pass of the loop
SegmentStart(start_from, idx) ==
    IF start_from # None THEN start_from ELSE Waypoint(idx)

SegmentTarget(continue_to, idx) ==
    IF continue_to # None THEN continue_to ELSE Waypoint(idx + 1)

\* UnitsPerSecond / (10 * base_speed): with total_duration =
\* distance / (base_speed * f), (env.now - start_time) * f < total_duration
\* is  elapsed * n * n < TimeScale * dist10 * d * d  for f = n / d
TimeScale == UnitsPerSecond \div (10 * base_speed)

ProgressNum(elapsed, f) == elapsed * f.n * f.n
ProgressDen(dist10, f) == TimeScale * dist10 * f.d * f.d

\* a faulty variant of the operator below, with <= for <: C19 must reject it
MotionContinuesInclusive(elapsed, f, dist10) ==
    ProgressNum(elapsed, f) <= ProgressDen(dist10, f)

\* the test of the motion loop
MotionContinues(elapsed, f, dist10) ==
    ProgressNum(elapsed, f) < ProgressDen(dist10, f)

\* int(c0 + (c1 - c0) * progress) for progress = a / b in [0, 1) and a
\* coordinate that stays positive: int() rounds toward zero
InterpolateAxis(c0, c1, a, b) ==
    LET qr == MulDivQR(Abs(c1 - c0), a, b)
    IN  IF c1 >= c0 THEN c0 + qr[1]
        ELSE c0 - qr[1] - (IF qr[2] > 0 THEN 1 ELSE 0)

\* the position published by one tick of the motion loop
MotionPosition(from, to, elapsed, f, dist10) ==
    LET a == ProgressNum(elapsed, f)
        b == ProgressDen(dist10, f)
    IN  <<InterpolateAxis(from[1], to[1], a, b),
          InterpolateAxis(from[2], to[2], a, b)>>

\* a faulty variant of the operator below, which divides by the factor once:
\* C28 must reject it
DwellTimeLinear(f) == (wait_duration * UnitsPerSecond * f.d) \div f.n

\* wait_duration / current_factor / current_factor, in time units
DwellTime(f) == (wait_duration * UnitsPerSecond * f.d * f.d) \div (f.n * f.n)

Clamp(x, lo, hi) == IF x < lo THEN lo ELSE IF x > hi THEN hi ELSE x

\* a faulty variant of the operator below, which forgets to add min_val: C18
\* must reject it
update_slider_value_no_offset(rel_x, min10, max10) ==
    LET num == Clamp(rel_x, 0, slider_width)
    IN  Frac((max10 - min10) * num, 10 * slider_width)

\* update_slider_value for a pointer rel_x pixels right of the slider's left
\* edge, inside the slider; min_val and max_val are given in tenths
update_slider_value(rel_x, min10, max10) ==
    LET num == Clamp(rel_x, 0, slider_width)    \* normalized * slider_width
    IN  Frac(min10 * slider_width + (max10 - min10) * num, 10 * slider_width)

----------------------------------------------------------------------------
(* main.py: the state after construction                                   *)

\* the speed factor 1.0 of SimulationState.__init__
InitialFactor == Frac(1, 1)

\* pointer positions, relative to the slider's left edge, the consumer drags to
SliderXs == {40, 160}

\* min_factor = 0.1 and max_factor = 50.0 of main(), in tenths
vehicle_min_factor == 1
vehicle_max_factor == 500

\* a faulty variant of the operator below, which hands the engine in use
\* back instead of building one: C12 must reject it
SameEngine(last) == last

\* create_env returns a new RealtimeEnvironment each time it is called:
\* engines are numbered in the order they are built
FreshEngine(last) == last + 1

\* env.process(proc) puts the start of proc into the event queue of env;
\* env.run takes events from the queue of its own engine only
Register(proc, env) == [proc EXCEPT !.engine = env]

\* a process whose engine is replaced stays suspended where it is, in the
\* queue of that engine: the place and the engine are what is kept of it
Discarded(proc) == [pc |-> proc.pc, engine |-> proc.engine]

\* a vehicle_process generator that has not run yet; env.process schedules its
\* start at env.now
NewVehicleProcess(start_from, continue_to, now) ==
    [pc |-> "start", wake |-> now,
     start_from |-> start_from, continue_to |-> continue_to,
     idx |-> 0, is_running |-> FALSE, current_factor |-> InitialFactor,
     current_pos |-> None, target_pos |-> None, start_time |-> 0, dist10 |-> 0,
     engine |-> 0]

NoHistory ==
    [unlocked |-> {}, rebuilds |-> 0, faulted |-> FALSE,
     wakes_after_stop |-> 0, stopped_at_slice_end |-> FALSE,
     resume |-> [active |-> FALSE, from |-> None, to |-> None],
     first_target |-> None,
     pass |-> 0, vol_pass |-> 0, msg_pass |-> 0,
     unwaited |-> FALSE,
     excursion |-> "none",
     horizon |-> MaxNow]

\* the simulated time up to which the run is followed
Horizon == g.horizon

\* the state after construction, with history record h
InitMainWith(h) ==
    /\ variant = "main"
    /\ lock = "free"
    /\ state = [current_pos |-> <<50, SCREEN_HEIGHT \div 2>>,
                target_pos |-> <<50, SCREEN_HEIGHT \div 2>>,
                message |-> [kind |-> "Initializing"],
                running |-> TRUE,
                factor |-> InitialFactor]
    /\ sim = [pc |-> "start", current_factor |-> InitialFactor,
              is_running |-> FALSE, last_pos |-> None, last_target |-> None,
              new_factor |-> InitialFactor,
              now |-> 0, until |-> 0, env_factor |-> InitialFactor,
              engine |-> 0, old |-> [pc |-> "none"],
              p |-> [pc |-> "none"]]
    /\ con = [pc |-> "events", running |-> TRUE, slider_rect |-> FALSE,
              writes |-> 0]
    /\ dash = None
    /\ g = h

InitMain == InitMainWith(NoHistory)

----------------------------------------------------------------------------
(* Steps shared by the variants *)

\* a thread reads or writes a shared field outside "with state.lock"
NoteUnlocked(thread, field) ==
    [g EXCEPT !.unlocked = @ \cup {<<thread, field>>}]

\* the process of the current engine is suspended (or has ended)
Suspended == sim.p.pc \in {"start", "wait_tick", "wait_dwell", "done"}

\* the process's next event is due within the slice being run: simpy orders
\* the "until" event of env.run before a process event of the same time
Due == sim.p.pc # "done" /\ sim.p.wake < sim.until

\* the process's next event is due and lies within the horizon
Fires == Due /\ sim.p.wake <= Horizon

\* env.run(until=env.now + check_interval) begins
RunSlice(s) == [s EXCEPT !.pc = "run", !.until = s.now + check_interval]

\* the simulation thread has ended at pc: its engine and process are gone
Ended(s, pc) ==
    [s EXCEPT !.pc = pc, !.p = [pc |-> "none"], !.old = [pc |-> "none"],
              !.now = 0, !.until = 0]

\* env.run has returned: remember whether state.running was false by then
NoteSliceEnd(h) ==
    IF state.running THEN h ELSE [h EXCEPT !.stopped_at_slice_end = TRUE]

\* the number of times a process was resumed from a suspension point while
\* state.running was false, counted to 2
CountWake(h) ==
    IF state.running THEN h
    ELSE [h EXCEPT !.wakes_after_stop = IF @ < 2 THEN @ + 1 ELSE @]

\* the consumer stores new_factor: state.factor is "away" while it has
\* differed from the factor the supervisor read last and no read has
\* happened since
NoteFactorWrite(h, new_factor) ==
    [h EXCEPT !.excursion =
         IF sim.pc = "start" THEN "none"
         ELSE IF new_factor # sim.current_factor \/ @ = "away"
              THEN "away" ELSE "none"]

\* the supervisor reads state.factor: a value that went away and came back
\* since the last read is "missed"
NoteFactorRead(h) ==
    [h EXCEPT !.excursion =
         IF @ = "away" /\ state.factor = sim.current_factor
         THEN "missed" ELSE "none"]

----------------------------------------------------------------------------
(* main.py: run_simulation, the supervisor                                 *)
(* A "with state.lock" block that calls nothing which takes the lock is    *)
(* one step, taken when no thread holds the lock.                          *)

\* a faulty variant of the operator below, with the two arguments
\* exchanged: C5 must reject it
ResumeArgsExchanged(last_pos, last_target) ==
    [start_from |-> last_target, continue_to |-> last_pos]

\* a faulty variant of the operator below, which hands over the target only:
\* C22 must reject it
ResumeArgsTargetOnly(last_pos, last_target) ==
    [start_from |-> None, continue_to |-> last_target]

\* the arguments run_simulation gives the process it restarts
ResumeArgs(last_pos, last_target) ==
    [start_from |-> last_pos, continue_to |-> last_target]

\* lines 169-177: read factor and running under the lock, build the engine,
\* start the process
vehicle_run_simulation_init ==
    /\ variant = "main" /\ sim.pc = "start" /\ lock = "free"
    /\ sim' = [sim EXCEPT !.pc = "test",
                          !.current_factor = state.factor,
                          !.is_running = state.running,
                          !.now = 0, !.env_factor = state.factor,
                          !.engine = FreshEngine(sim.engine),
                          !.p = Register(NewVehicleProcess(None, None, 0),
                                         FreshEngine(sim.engine))]
    /\ g' = [g EXCEPT !.excursion = "none"]
    /\ UNCHANGED <<variant, lock, state, con, dash>>

\* line 179: while is_running fails, the thread ends
vehicle_run_simulation_exit ==
    /\ variant = "main" /\ sim.pc = "test" /\ ~sim.is_running
    /\ sim' = Ended(sim, "done")
    /\ UNCHANGED <<variant, lock, state, con, dash, g>>

\* a faulty variant of the step below, without the comparison of line 188:
\* the slice is run on the engine there is; C11 must reject it
vehicle_run_simulation_poll_no_compare ==
    /\ variant = "main" /\ sim.pc = "test" /\ sim.is_running
    /\ lock = "free"
    /\ sim.now < Horizon
    /\ sim' = RunSlice([sim EXCEPT !.last_pos = state.current_pos,
                                   !.last_target = state.target_pos,
                                   !.new_factor = state.factor])
    /\ UNCHANGED <<variant, lock, state, con, dash, g>>

\* a faulty variant of the step below, which rebuilds at every poll: C26
\* must reject it
vehicle_run_simulation_poll_rebuild_always ==
    /\ variant = "main" /\ sim.pc = "test" /\ sim.is_running
    /\ lock = "free"
    /\ sim' = [sim EXCEPT !.pc = "rebuild",
                          !.last_pos = state.current_pos,
                          !.last_target = state.target_pos,
                          !.new_factor = state.factor,
                          !.current_factor = state.factor,
                          !.now = 0, !.env_factor = state.factor,
                          !.engine = FreshEngine(sim.engine),
                          !.old = Discarded(sim.p),
                          !.p = [pc |-> "none"]]
    /\ g' = NoteFactorRead(g)
    /\ UNCHANGED <<variant, lock, state, con, dash>>

\* lines 179-191 and 203: while is_running; snapshot position, target and
\* factor under the lock; on a changed factor build a new engine, otherwise
\* run the next slice
vehicle_run_simulation_poll ==
    /\ variant = "main" /\ sim.pc = "test" /\ sim.is_running
    /\ lock = "free"
    /\ LET s == [sim EXCEPT !.last_pos = state.current_pos,
                            !.last_target = state.target_pos,
                            !.new_factor = state.factor]
       IN  IF state.factor # sim.current_factor
           THEN sim' = [s EXCEPT !.pc = "rebuild",
                                 !.current_factor = state.factor,
                                 !.now = 0, !.env_factor = state.factor,
                                 !.engine = FreshEngine(sim.engine),
                                 !.old = Discarded(sim.p),
                                 !.p = [pc |-> "none"]]
           ELSE /\ sim.now < Horizon
                /\ sim' = RunSlice(s)
    /\ g' = NoteFactorRead(g)
    /\ UNCHANGED <<variant, lock, state, con, dash>>

\* lines 192-203: publish the message under the lock, start the new process
\* from the snapshot, run the first slice of the new engine
vehicle_run_simulation_restart ==
    /\ variant = "main" /\ sim.pc = "rebuild" /\ lock = "free"
    /\ state' = [state EXCEPT !.message =
                    [kind |-> "Speed changed", factor |-> sim.current_factor]]
    /\ LET a == ResumeArgs(sim.last_pos, sim.last_target)
       IN  sim' = RunSlice([sim EXCEPT !.p =
                     Register(NewVehicleProcess(a.start_from, a.continue_to,
                                                sim.now), sim.engine)])
    /\ g' = [g EXCEPT !.rebuilds = IF @ < 2 THEN @ + 1 ELSE @,
                      !.resume = [active |-> TRUE,
                                  from |-> sim.last_pos,
                                  to |-> sim.last_target],
                      !.first_target = None]
    /\ UNCHANGED <<variant, lock, con, dash>>

\* env.run returns: no event of the process is left before "until"; the loop
\* goes back to its test with the is_running it had
vehicle_run_simulation_slice_end ==
    /\ variant = "main" /\ sim.pc = "run" /\ Suspended /\ ~Due
    /\ sim.until <= Horizon
    /\ sim' = [sim EXCEPT !.pc = "test", !.now = sim.until]
    /\ g' = NoteSliceEnd(g)
    /\ UNCHANGED <<variant, lock, state, con, dash>>

\* lines 205-209: env.run raises at the first step of an engine; the
\* handler sets state.running = False outside the lock and breaks
vehicle_run_simulation_fail ==
    /\ variant = "main" /\ sim.pc = "run" /\ sim.p.pc = "start"
    /\ state' = [state EXCEPT !.running = FALSE]
    /\ sim' = Ended(sim, "done")
    /\ g' = NoteUnlocked("sim", "running")
    /\ UNCHANGED <<variant, lock, con, dash>>

----------------------------------------------------------------------------
(* main.py: vehicle_process, the process runner                            *)

\* the test "while is_running" of line 92 for a process that has just read
\* the flag: the next pass begins, or the generator returns
VehicleLoop(proc) ==
    [proc EXCEPT !.pc = IF proc.is_running THEN "pass" ELSE "done"]

\* the test of line 121 for a process resumed, or started on a segment, at
\* time now
VehicleContinues(proc, now) ==
    MotionContinues(now - proc.start_time, proc.current_factor, proc.dist10)

\* lines 55-92: the generator starts, finds its index, reads the flag under
\* the lock; while is_running
vehicle_process_start ==
    /\ variant = "main" /\ sim.pc = "run" /\ sim.p.pc = "start" /\ Fires
    /\ lock = "free"
    /\ sim' = [sim EXCEPT
                 !.now = sim.p.wake,
                 !.p = VehicleLoop([sim.p EXCEPT
                          !.idx = InitialIdx(sim.p.start_from,
                                             sim.p.continue_to),
                          !.is_running = state.running])]
    /\ UNCHANGED <<variant, lock, state, con, dash, g>>

\* lines 95-104: read the factor under the lock, choose the segment
vehicle_process_read_factor ==
    /\ variant = "main" /\ sim.pc = "run" /\ sim.p.pc = "pass"
    /\ lock = "free"
    /\ sim' = [sim EXCEPT
                 !.p.pc = "segment",
                 !.p.current_factor = state.factor,
                 !.p.current_pos = SegmentStart(sim.p.start_from, sim.p.idx),
                 !.p.target_pos = SegmentTarget(sim.p.continue_to, sim.p.idx),
                 !.p.start_from = None,
                 !.p.continue_to = None]
    /\ UNCHANGED <<variant, lock, state, con, dash, g>>

\* lines 107-121: publish target and message under the lock, compute the
\* duration, enter the motion loop
vehicle_process_publish_target ==
    /\ variant = "main" /\ sim.pc = "run" /\ sim.p.pc = "segment"
    /\ lock = "free"
    /\ state' = [state EXCEPT
                   !.target_pos = sim.p.target_pos,
                   !.message = [kind |-> "Moving", to |-> sim.p.target_pos]]
    /\ LET proc == [sim.p EXCEPT !.start_time = sim.now,
                                 !.dist10 = Dist10(sim.p.current_pos,
                                                   sim.p.target_pos)]
       IN  sim' = [sim EXCEPT !.p = [proc EXCEPT !.pc =
                      IF VehicleContinues(proc, sim.now)
                      THEN "move" ELSE "arrive"]]
    /\ g' = IF g.resume.active /\ g.first_target = None
            THEN [g EXCEPT !.first_target = sim.p.target_pos]
            ELSE g
    /\ UNCHANGED <<variant, lock, con, dash>>

\* lines 122-129: publish the interpolated position (update_position takes
\* the lock), yield env.timeout(update_interval)
vehicle_process_update_position ==
    /\ variant = "main" /\ sim.pc = "run" /\ sim.p.pc = "move"
    /\ lock = "free"
    /\ state' = [state EXCEPT !.current_pos =
                    MotionPosition(sim.p.current_pos, sim.p.target_pos,
                                   sim.now - sim.p.start_time,
                                   sim.p.current_factor, sim.p.dist10)]
    /\ sim' = [sim EXCEPT !.p.pc = "wait_tick",
                          !.p.wake = sim.now + vehicle_update_interval]
    /\ UNCHANGED <<variant, lock, con, dash, g>>

\* the timeout of line 129 fires: the process resumes at the test of line 121
vehicle_process_tick ==
    /\ variant = "main" /\ sim.pc = "run" /\ sim.p.pc = "wait_tick" /\ Fires
    /\ sim' = [sim EXCEPT !.now = sim.p.wake,
                          !.p.pc = IF VehicleContinues(sim.p, sim.p.wake)
                                   THEN "move" ELSE "arrive"]
    /\ g' = CountWake(g)
    /\ UNCHANGED <<variant, lock, state, con, dash>>

\* a faulty variant of the action below, which leaves the position where
\* the last tick put it: C24 must reject it
vehicle_process_update_target_skipped ==
    /\ variant = "main" /\ sim.pc = "run" /\ sim.p.pc = "arrive"
    /\ lock = "free"
    /\ sim' = [sim EXCEPT !.p.pc = "arrived"]
    /\ g' = [g EXCEPT !.resume.active = FALSE]
    /\ UNCHANGED <<variant, lock, state, con, dash>>

\* line 135: publish the exact target position (update_position takes the
\* lock)
vehicle_process_update_target ==
    /\ variant = "main" /\ sim.pc = "run" /\ sim.p.pc = "arrive"
    /\ lock = "free"
    /\ state' = [state EXCEPT !.current_pos = sim.p.target_pos]
    /\ sim' = [sim EXCEPT !.p.pc = "arrived"]
    /\ g' = [g EXCEPT !.resume.active = FALSE]
    /\ UNCHANGED <<variant, lock, con, dash>>

\* lines 138-144: publish the message under the lock, yield the dwell timeout
vehicle_process_publish_arrival ==
    /\ variant = "main" /\ sim.pc = "run" /\ sim.p.pc = "arrived"
    /\ lock = "free"
    /\ state' = [state EXCEPT !.message =
                    [kind |-> "Arrived",
                     wait |-> Frac(wait_duration * sim.p.current_factor.d,
                                   sim.p.current_factor.n)]]
    /\ sim' = [sim EXCEPT !.p.pc = "wait_dwell",
                          !.p.wake = sim.now + DwellTime(sim.p.current_factor)]
    /\ UNCHANGED <<variant, lock, con, dash, g>>

\* the timeout of line 144 fires; lines 145-148 and 92: idx += 1; read the
\* flag under the lock; while is_running
vehicle_process_dwell_over ==
    /\ variant = "main" /\ sim.pc = "run" /\ sim.p.pc = "wait_dwell" /\ Fires
    /\ lock = "free"
    /\ sim' = [sim EXCEPT
                 !.now = sim.p.wake,
                 !.p = VehicleLoop([sim.p EXCEPT
                          !.idx = @ + 1,
                          !.is_running = state.running])]
    /\ g' = CountWake(g)
    /\ UNCHANGED <<variant, lock, state, con, dash>>

\* the computation of lines 112-118 raises inside the try block and control
\* reaches a handler of lines 150-160 (the same for an Exception and a
\* simpy.Interrupt)
vehicle_process_fault ==
    /\ variant = "main" /\ sim.pc = "run" /\ sim.p.pc = "move"
    /\ sim.now = sim.p.start_time
    /\ sim' = [sim EXCEPT !.p.pc = "handler"]
    /\ g' = [g EXCEPT !.faulted = TRUE]
    /\ UNCHANGED <<variant, lock, state, con, dash>>

\* lines 153-155 / 158-160 and 92: state.running = False under the lock;
\* is_running = False; the loop ends
vehicle_process_handler ==
    /\ variant = "main" /\ sim.pc = "run" /\ sim.p.pc = "handler"
    /\ lock = "free"
    /\ state' = [state EXCEPT !.running = FALSE]
    /\ sim' = [sim EXCEPT !.p = VehicleLoop([sim.p EXCEPT
                                    !.is_running = FALSE])]
    /\ UNCHANGED <<variant, lock, con, dash, g>>

----------------------------------------------------------------------------
(* main.py: main(), the consumer                                           *)

\* lines 310-311: pygame.QUIT
vehicle_main_quit ==
    /\ variant = "main" /\ con.pc = "events" /\ con.running
    /\ con' = [con EXCEPT !.running = FALSE]
    /\ UNCHANGED <<variant, lock, state, sim, dash, g>>

\* lines 312-327: the button goes down on the slider (drawn by an earlier
\* frame) and the pointer moves to rel_x; state.factor = new_factor under
\* the lock
vehicle_main_motion(rel_x) ==
    /\ variant = "main" /\ con.pc = "events" /\ con.slider_rect
    /\ con.writes < MaxFactorWrites
    /\ lock = "free"
    /\ state' = [state EXCEPT !.factor =
                    update_slider_value(rel_x, vehicle_min_factor,
                                        vehicle_max_factor)]
    /\ con' = [con EXCEPT !.writes = @ + 1]
    /\ g' = NoteFactorWrite(g, state'.factor)
    /\ UNCHANGED <<variant, lock, sim, dash>>

\* a faulty variant of the action below, which does not test state.running:
\* C17 must reject it
vehicle_main_snapshot_blind ==
    /\ variant = "main" /\ con.pc = "events" /\ lock = "free"
    /\ con' = [con EXCEPT !.pc = "draw"]
    /\ UNCHANGED <<variant, lock, state, sim, dash, g>>

\* lines 332-338: the events of the frame are handled; copy position,
\* target and message under the lock; stop if the simulation died
vehicle_main_snapshot ==
    /\ variant = "main" /\ con.pc = "events" /\ lock = "free"
    /\ con' = [con EXCEPT
                 !.pc = "draw",
                 !.running = con.running /\ state.running]
    /\ UNCHANGED <<variant, lock, state, sim, dash, g>>

\* lines 341-401 and 307: draw the frame, reading state.factor for the slider
\* outside the lock; while running
vehicle_main_draw ==
    /\ variant = "main" /\ con.pc = "draw"
    /\ con' = [con EXCEPT !.pc = IF con.running THEN "events" ELSE "cleanup",
                          !.slider_rect = TRUE]
    /\ g' = NoteUnlocked("con", "factor")
    /\ UNCHANGED <<variant, lock, state, sim, dash>>

\* a faulty variant of the action below, in which the consumer also writes
\* the message: C25 must reject it
vehicle_main_stop_with_message ==
    /\ variant = "main" /\ con.pc = "cleanup" /\ lock = "free"
    /\ state' = [state EXCEPT !.running = FALSE,
                              !.message = [kind |-> "Stopped"]]
    /\ con' = [con EXCEPT !.pc = "stopped"]
    /\ UNCHANGED <<variant, lock, sim, dash, g>>

\* lines 406-407: state.running = False under the lock
vehicle_main_stop ==
    /\ variant = "main" /\ con.pc = "cleanup" /\ lock = "free"
    /\ state' = [state EXCEPT !.running = FALSE]
    /\ con' = [con EXCEPT !.pc = "stopped"]
    /\ UNCHANGED <<variant, lock, sim, dash, g>>

\* lines 409-410: sys.exit() ends the process and with it the daemon thread
vehicle_main_exit ==
    /\ variant = "main" /\ con.pc = "stopped"
    /\ con' = [con EXCEPT !.pc = "exited"]
    /\ sim' = Ended(sim, "killed")
    /\ UNCHANGED <<variant, lock, state, dash, g>>

NextMain ==
    \/ vehicle_run_simulation_init
    \/ vehicle_run_simulation_exit
    \/ vehicle_run_simulation_poll
    \/ vehicle_run_simulation_restart
    \/ vehicle_run_simulation_slice_end
    \/ vehicle_run_simulation_fail
    \/ vehicle_process_start
    \/ vehicle_process_read_factor
    \/ vehicle_process_publish_target
    \/ vehicle_process_update_position
    \/ vehicle_process_tick
    \/ vehicle_process_update_target
    \/ vehicle_process_publish_arrival
    \/ vehicle_process_dwell_over
    \/ vehicle_process_fault
    \/ vehicle_process_handler
    \/ vehicle_main_quit
    \/ \E rel_x \in SliderXs : vehicle_main_motion(rel_x)
    \/ vehicle_main_snapshot
    \/ vehicle_main_draw
    \/ vehicle_main_stop
    \/ vehicle_main_exit

SpecMain == InitMain /\ [][NextMain]_vars

----------------------------------------------------------------------------
(* main.py: a long run at the factor 1.0                                   *)

\* the number of ticks of 1/360 s a long run is followed for
VehicleRunTicks == 2401

InitVehicleRun ==
    InitMainWith([NoHistory EXCEPT
                    !.horizon = VehicleRunTicks * vehicle_update_interval])

\* the steps of the supervisor, the process and the consumer when the slider
\* is not moved, the window stays open and nothing fails
NextVehicleRun ==
    \/ vehicle_run_simulation_init
    \/ vehicle_run_simulation_poll
    \/ vehicle_run_simulation_slice_end
    \/ vehicle_process_start
    \/ vehicle_process_read_factor
    \/ vehicle_process_publish_target
    \/ vehicle_process_update_position
    \/ vehicle_process_tick
    \/ vehicle_process_update_target
    \/ vehicle_process_publish_arrival
    \/ vehicle_process_dwell_over
    \/ vehicle_main_snapshot
    \/ vehicle_main_draw

SpecVehicleRun == InitVehicleRun /\ [][NextVehicleRun]_vars

----------------------------------------------------------------------------
(* tank_simulation.py: the state after construction, pure parts            *)

\* min_factor = 0.1 and max_factor = 5.0 of main(), in tenths
tank_min_factor == 1
tank_max_factor == 50
\* min_flow = 0 and max_flow = 100 of main(), in tenths
min_flow == 0
max_flow == 1000

\* pointer positions the consumer drags the speed and the flow sliders to
TankSpeedXs == {100}
FlowXs == {60, 140}

\* a volume of v litres, in volume units
Litres(v) == v * UnitsPerLitre

\* a faulty variant of the operator below, which forgets update_interval:
\* C14 must reject it
VolumeStepPerSecond(inflow, outflow) ==
    inflow.n * (UnitsPerLitre \div inflow.d)
    - outflow.n * (UnitsPerLitre \div outflow.d)

\* net_flow * update_interval for flows given as fractions of a litre per
\* second, in volume units: update_interval is 1/60 s
VolumeStep(inflow, outflow) ==
    LET perSecond == inflow.n * (UnitsPerLitre \div inflow.d)
                     - outflow.n * (UnitsPerLitre \div outflow.d)
    IN  perSecond \div 60

\* a faulty variant of the operator below, without the clamp: C13 must
\* reject it
StoreUnclamped(volume) == volume

\* max(0, min(MAX_VOLUME, volume)) of update_volume
ClampVolume(volume) == Clamp(volume, 0, Litres(MAX_VOLUME))

\* the message tank_process publishes for a net flow
TankMessage(step) ==
    IF step > 0 THEN [kind |-> "Tank filling", net |-> step]
    ELSE IF step < 0 THEN [kind |-> "Tank emptying", net |-> -step]
    ELSE [kind |-> "Tank level stable"]

\* create_env: RealtimeEnvironment(factor=1 / factor)
TankEnvFactor(f) == [n |-> f.d, d |-> f.n]

\* a tank_process generator that has not run yet
NewTankProcess(now) ==
    [pc |-> "start", wake |-> now, is_running |-> FALSE, volume |-> 0,
     net_flow |-> 0, engine |-> 0]

InitTank ==
    /\ variant = "tank"
    /\ lock = "free"
    /\ state = [current_volume |-> 0,
                inflow_rate |-> Frac(50, 1),
                outflow_rate |-> Frac(30, 1),
                message |-> [kind |-> "Initializing"],
                running |-> TRUE,
                factor |-> InitialFactor]
    /\ sim = [pc |-> "start", current_factor |-> InitialFactor,
              is_running |-> FALSE, new_factor |-> InitialFactor,
              current_volume |-> 0,
              now |-> 0, until |-> 0,
              env_factor |-> TankEnvFactor(InitialFactor),
              engine |-> 0, old |-> [pc |-> "none"],
              p |-> [pc |-> "none"]]
    /\ con = [pc |-> "events", running |-> TRUE, slider_rect |-> FALSE,
              writes |-> 0, flow_writes |-> 0]
    /\ dash = None
    /\ g = NoHistory

----------------------------------------------------------------------------
(* tank_simulation.py: run_simulation, the supervisor                      *)

\* lines 104-110: read factor and running under the lock, build the engine,
\* start the process
tank_run_simulation_init ==
    /\ variant = "tank" /\ sim.pc = "start" /\ lock = "free"
    /\ sim' = [sim EXCEPT !.pc = "test",
                          !.current_factor = state.factor,
                          !.is_running = state.running,
                          !.now = 0,
                          !.env_factor = TankEnvFactor(state.factor),
                          !.engine = FreshEngine(sim.engine),
                          !.p = Register(NewTankProcess(0),
                                         FreshEngine(sim.engine))]
    /\ g' = [g EXCEPT !.excursion = "none"]
    /\ UNCHANGED <<variant, lock, state, con, dash>>

\* line 112: while is_running fails, the thread ends
tank_run_simulation_exit ==
    /\ variant = "tank" /\ sim.pc = "test" /\ ~sim.is_running
    /\ sim' = Ended(sim, "done")
    /\ UNCHANGED <<variant, lock, state, con, dash, g>>

\* lines 112-119 and 128: while is_running; read the factor under the lock;
\* on a change go on to rebuild, otherwise run the next slice
tank_run_simulation_poll ==
    /\ variant = "tank" /\ sim.pc = "test" /\ sim.is_running
    /\ lock = "free"
    /\ LET s == [sim EXCEPT !.new_factor = state.factor]
       IN  IF state.factor # sim.current_factor
           THEN sim' = [s EXCEPT !.pc = "save_volume",
                                 !.current_factor = state.factor]
           ELSE /\ sim.now < Horizon
                /\ sim' = RunSlice(s)
    /\ g' = NoteFactorRead(g)
    /\ UNCHANGED <<variant, lock, state, con, dash>>

\* lines 121-123: current_volume = state.current_volume, outside the lock;
\* build the new engine
tank_run_simulation_save_volume ==
    /\ variant = "tank" /\ sim.pc = "save_volume"
    /\ sim' = [sim EXCEPT !.pc = "restore_volume",
                          !.current_volume = state.current_volume,
                          !.now = 0,
                          !.env_factor = TankEnvFactor(sim.current_factor),
                          !.engine = FreshEngine(sim.engine),
                          !.old = Discarded(sim.p),
                          !.p = [pc |-> "none"]]
    /\ g' = NoteUnlocked("sim", "current_volume")
    /\ UNCHANGED <<variant, lock, state, con, dash>>

\* lines 125-128: state.current_volume = current_volume, outside the lock;
\* start the new process, run the first slice of the new engine
tank_run_simulation_restart ==
    /\ variant = "tank" /\ sim.pc = "restore_volume"
    /\ state' = [state EXCEPT !.current_volume = sim.current_volume]
    /\ sim' = RunSlice([sim EXCEPT !.p = Register(NewTankProcess(sim.now),
                                                  sim.engine)])
    /\ g' = [NoteUnlocked("sim", "current_volume")
               EXCEPT !.rebuilds = IF @ < 2 THEN @ + 1 ELSE @]
    /\ UNCHANGED <<variant, lock, con, dash>>

\* env.run returns: no event of the process is left before "until"
tank_run_simulation_slice_end ==
    /\ variant = "tank" /\ sim.pc = "run" /\ Suspended /\ ~Due
    /\ sim.until <= Horizon
    /\ sim' = [sim EXCEPT !.pc = "reread", !.now = sim.until]
    /\ g' = NoteSliceEnd(g)
    /\ UNCHANGED <<variant, lock, state, con, dash>>

\* a faulty variant of the step below, with the assignment of line 137
\* turned round (state.running = is_running): C3 must reject it
tank_run_simulation_reread_reversed ==
    /\ variant = "tank" /\ sim.pc = "reread" /\ lock = "free"
    /\ state' = [state EXCEPT !.running = sim.is_running]
    /\ sim' = [sim EXCEPT !.pc = "test"]
    /\ UNCHANGED <<variant, lock, con, dash, g>>

\* lines 136-137: is_running = state.running under the lock
tank_run_simulation_reread ==
    /\ variant = "tank" /\ sim.pc = "reread" /\ lock = "free"
    /\ sim' = [sim EXCEPT !.pc = "test", !.is_running = state.running]
    /\ UNCHANGED <<variant, lock, state, con, dash, g>>

\* lines 130-134: env.run raises at the first step of an engine; the
\* handler sets state.running = False outside the lock and breaks
tank_run_simulation_fail ==
    /\ variant = "tank" /\ sim.pc = "run" /\ sim.p.pc = "start"
    /\ state' = [state EXCEPT !.running = FALSE]
    /\ sim' = Ended(sim, "done")
    /\ g' = NoteUnlocked("sim", "running")
    /\ UNCHANGED <<variant, lock, con, dash>>

----------------------------------------------------------------------------
(* tank_simulation.py: tank_process, the process runner                    *)

\* the test "while is_running" of line 54 for a process that has just read
\* the flag
TankLoop(proc) ==
    [proc EXCEPT !.pc = IF proc.is_running THEN "pass" ELSE "done"]

\* lines 48-54: the generator starts; is_running = state.running and
\* volume = state.current_volume under the lock; while is_running
tank_process_start ==
    /\ variant = "tank" /\ sim.pc = "run" /\ sim.p.pc = "start" /\ Fires
    /\ lock = "free"
    /\ sim' = [sim EXCEPT
                 !.now = sim.p.wake,
                 !.p = TankLoop([sim.p EXCEPT
                                   !.is_running = state.running,
                                   !.volume = state.current_volume])]
    /\ UNCHANGED <<variant, lock, state, con, dash, g>>

\* lines 57-63: read the rates under the lock;
\* volume += net_flow * update_interval
tank_process_read_rates ==
    /\ variant = "tank" /\ sim.pc = "run" /\ sim.p.pc = "pass"
    /\ lock = "free"
    /\ LET step == VolumeStep(state.inflow_rate, state.outflow_rate)
       IN  sim' = [sim EXCEPT !.p.pc = "computed",
                              !.p.net_flow = step,
                              !.p.volume = @ + step]
    /\ g' = [g EXCEPT !.pass = 1 - @]
    /\ UNCHANGED <<variant, lock, state, con, dash>>

\* lines 66 and 38-41, update_volume: under the lock,
\* self.current_volume = max(0, min(MAX_VOLUME, volume))
tank_process_update_volume ==
    /\ variant = "tank" /\ sim.pc = "run" /\ sim.p.pc = "computed"
    /\ lock = "free"
    /\ state' = [state EXCEPT !.current_volume = ClampVolume(sim.p.volume)]
    /\ sim' = [sim EXCEPT !.p.pc = "updated"]
    /\ g' = [g EXCEPT !.vol_pass = g.pass, !.unwaited = TRUE]
    /\ UNCHANGED <<variant, lock, con, dash>>

\* lines 69-78: publish the message under the lock, yield
\* env.timeout(update_interval)
tank_process_publish_message ==
    /\ variant = "tank" /\ sim.pc = "run" /\ sim.p.pc = "updated"
    /\ lock = "free"
    /\ state' = [state EXCEPT !.message = TankMessage(sim.p.net_flow)]
    /\ sim' = [sim EXCEPT !.p.pc = "wait_tick",
                          !.p.wake = sim.now + tank_update_interval]
    /\ g' = [g EXCEPT !.msg_pass = g.pass]
    /\ UNCHANGED <<variant, lock, con, dash>>

\* the timeout of line 78 fires; lines 80-82 and 54:
\* is_running = state.running and volume = state.current_volume under the
\* lock; while is_running
tank_process_tick ==
    /\ variant = "tank" /\ sim.pc = "run" /\ sim.p.pc = "wait_tick" /\ Fires
    /\ lock = "free"
    /\ sim' = [sim EXCEPT
                 !.now = sim.p.wake,
                 !.p = TankLoop([sim.p EXCEPT
                                   !.is_running = state.running,
                                   !.volume = state.current_volume])]
    /\ g' = [CountWake(g) EXCEPT !.unwaited = FALSE]
    /\ UNCHANGED <<variant, lock, state, con, dash>>

\* the computation of lines 62-63 raises inside the try block in the first
\* pass of an engine; lines 84-89:
\* both handlers print and break, the generator returns
tank_process_fault ==
    /\ variant = "tank" /\ sim.pc = "run" /\ sim.p.pc = "computed"
    /\ sim.now = 0
    /\ sim' = [sim EXCEPT !.p.pc = "done"]
    /\ g' = [g EXCEPT !.faulted = TRUE]
    /\ UNCHANGED <<variant, lock, state, con, dash>>

----------------------------------------------------------------------------
(* tank_simulation.py: main, the consumer                                  *)

\* the value update_slider_value gives the slider dragged to rel_x
TankSliderValue(slider, rel_x) ==
    IF slider = "speed"
    THEN update_slider_value(rel_x, tank_min_factor, tank_max_factor)
    ELSE update_slider_value(rel_x, min_flow, max_flow)

\* lines 231-232: pygame.QUIT
tank_main_quit ==
    /\ variant = "tank" /\ con.pc = "events" /\ con.running
    /\ con' = [con EXCEPT !.running = FALSE]
    /\ UNCHANGED <<variant, lock, state, sim, dash, g>>

\* lines 233-264: the button goes down on one slider (drawn by an earlier
\* frame) and the pointer moves to rel_x; state.factor, state.inflow_rate or
\* state.outflow_rate = the new value under the lock
tank_main_motion(slider, rel_x) ==
    /\ variant = "tank" /\ con.pc = "events" /\ con.slider_rect
    /\ IF slider = "speed" THEN con.writes < MaxFactorWrites
                           ELSE con.flow_writes < MaxFlowWrites
    /\ lock = "free"
    /\ LET new_value == TankSliderValue(slider, rel_x)
       IN  state' = CASE slider = "speed" ->
                           [state EXCEPT !.factor = new_value]
                      [] slider = "inflow" ->
                           [state EXCEPT !.inflow_rate = new_value]
                      [] OTHER ->
                           [state EXCEPT !.outflow_rate = new_value]
    /\ con' = [con EXCEPT
                 !.writes = IF slider = "speed" THEN @ + 1 ELSE @,
                 !.flow_writes = IF slider = "speed" THEN @ ELSE @ + 1]
    /\ g' = IF slider = "speed" THEN NoteFactorWrite(g, state'.factor) ELSE g
    /\ UNCHANGED <<variant, lock, sim, dash>>

\* lines 267-271: the events of the frame are handled; copy volume and
\* message under the lock; stop if the simulation died
tank_main_snapshot ==
    /\ variant = "tank" /\ con.pc = "events" /\ lock = "free"
    /\ con' = [con EXCEPT
                 !.pc = "draw",
                 !.running = con.running /\ state.running]
    /\ UNCHANGED <<variant, lock, state, sim, dash, g>>

\* lines 274-339 and 229: draw the frame, reading state.factor,
\* state.inflow_rate and state.outflow_rate outside the lock; while running
tank_main_draw ==
    /\ variant = "tank" /\ con.pc = "draw"
    /\ con' = [con EXCEPT !.pc = IF con.running THEN "events" ELSE "cleanup",
                          !.slider_rect = TRUE]
    /\ g' = [g EXCEPT !.unlocked = @ \cup {<<"con", "factor">>,
                                           <<"con", "inflow_rate">>,
                                           <<"con", "outflow_rate">>}]
    /\ UNCHANGED <<variant, lock, state, sim, dash>>

\* lines 344-345: state.running = False under the lock
tank_main_stop ==
    /\ variant = "tank" /\ con.pc = "cleanup" /\ lock = "free"
    /\ state' = [state EXCEPT !.running = FALSE]
    /\ con' = [con EXCEPT !.pc = "stopped"]
    /\ UNCHANGED <<variant, lock, sim, dash, g>>

\* lines 347-348: sys.exit() ends the process and with it the daemon thread
tank_main_exit ==
    /\ variant = "tank" /\ con.pc = "stopped"
    /\ con' = [con EXCEPT !.pc = "exited"]
    /\ sim' = Ended(sim, "killed")
    /\ UNCHANGED <<variant, lock, state, dash, g>>

NextTank ==
    \/ tank_run_simulation_init
    \/ tank_run_simulation_exit
    \/ tank_run_simulation_poll
    \/ tank_run_simulation_save_volume
    \/ tank_run_simulation_restart
    \/ tank_run_simulation_slice_end
    \/ tank_run_simulation_reread
    \/ tank_run_simulation_fail
    \/ tank_process_start
    \/ tank_process_read_rates
    \/ tank_process_update_volume
    \/ tank_process_publish_message
    \/ tank_process_tick
    \/ tank_process_fault
    \/ tank_main_quit
    \/ \E rel_x \in TankSpeedXs : tank_main_motion("speed", rel_x)
    \/ \E rel_x \in FlowXs : tank_main_motion("inflow", rel_x)
    \/ \E rel_x \in FlowXs : tank_main_motion("outflow", rel_x)
    \/ tank_main_snapshot
    \/ tank_main_draw
    \/ tank_main_stop
    \/ tank_main_exit

SpecTank == InitTank /\ [][NextTank]_vars

----------------------------------------------------------------------------
(* tank_simulation.py: a long run with constant flows and factor           *)

\* the number of ticks of tank_process a long run is followed for
TankRunTicks == 606

\* pointer positions <<inflow slider, outflow slider>> set before the
\* simulation thread takes its first step: <<100, 60>> gives the flows 50 and
\* 30 of SimulationState.__init__, <<199, 0>> the largest net flow a pointer
\* inside the sliders can set
TankRunFlowXs == {<<100, 60>>, <<199, 0>>, <<60, 100>>}

\* the consumer has drawn its first frame and set the flow sliders; the
\* simulation thread has not started yet; nobody touches a slider afterwards
InitTankRun ==
    /\ variant = "tank"
    /\ lock = "free"
    /\ \E xs \in TankRunFlowXs :
          state = [current_volume |-> 0,
                   inflow_rate |-> TankSliderValue("inflow", xs[1]),
                   outflow_rate |-> TankSliderValue("outflow", xs[2]),
                   message |-> [kind |-> "Initializing"],
                   running |-> TRUE,
                   factor |-> InitialFactor]
    /\ sim = [pc |-> "start", current_factor |-> InitialFactor,
              is_running |-> FALSE, new_factor |-> InitialFactor,
              current_volume |-> 0,
              now |-> 0, until |-> 0,
              env_factor |-> TankEnvFactor(InitialFactor),
              engine |-> 0, old |-> [pc |-> "none"],
              p |-> [pc |-> "none"]]
    /\ con = [pc |-> "events", running |-> TRUE, slider_rect |-> TRUE,
              writes |-> MaxFactorWrites, flow_writes |-> MaxFlowWrites]
    /\ dash = None
    /\ g = [NoHistory EXCEPT !.horizon = TankRunTicks * tank_update_interval]

\* the steps of the supervisor, the process and the consumer when no slider
\* moves, the window stays open and nothing fails
NextTankRun ==
    \/ tank_run_simulation_init
    \/ tank_run_simulation_poll
    \/ tank_run_simulation_slice_end
    \/ tank_run_simulation_reread
    \/ tank_process_start
    \/ tank_process_read_rates
    \/ tank_process_update_volume
    \/ tank_process_publish_message
    \/ tank_process_tick
    \/ tank_main_snapshot
    \/ tank_main_draw

SpecTankRun == InitTankRun /\ [][NextTankRun]_vars

----------------------------------------------------------------------------
(* tank_dash.py: SharedState, pygame_loop and the Dash callbacks           *)

\* the slider values a Dash client sends to update_flows: <<>> for None
DashFlowInputs == {<<>>, <<70>>}

\* the threads of tank_dash.py: the render thread and a callback worker
DashThreads == {"pyg", "cb"}

\* the places where a thread stands before "with state.lock" or
\* "with self.lock", each with the place it reaches on acquiring the lock
DashLockSites ==
    [pygame_loop_with |-> "pygame_loop_step",
     update_volume |-> "update_volume_body",
     pygame_loop_save |-> "pygame_loop_save_body",
     get_surface |-> "get_surface_body",
     get_history |-> "get_history_body",
     update_flows |-> "update_flows_body"]

\* thread t stands at an acquisition of the lock
WaitingForLock(t) ==
    /\ variant = "dash"
    /\ t \in DashThreads
    /\ dash[t].pc \in DOMAIN DashLockSites

InitDash ==
    /\ variant = "dash"
    /\ lock = "free"
    /\ state = [volume |-> 0, inflow |-> 50, outflow |-> 30,
                _pygame_surface |-> None,
                pygame_surface |-> None,
                volume_history |-> <<>>,
                time_history |-> <<>>,
                running |-> TRUE]
    /\ sim = [pc |-> "none"]
    /\ con = [pc |-> "none"]
    /\ dash = [pyg |-> [pc |-> "while", new_volume |-> 0],
               cb |-> [pc |-> "idle", inflow |-> <<>>, outflow |-> <<>>,
                       calls |-> 0, returned |-> None]]
    /\ g = NoHistory

\* threading.Lock.acquire of lines 133, 45, 69, 73 and 308: the lock is not
\* reentrant, it is granted only when no thread holds it
dash_lock_acquire(t) ==
    /\ variant = "dash" /\ WaitingForLock(t)
    /\ lock = "free"
    /\ lock' = t
    /\ dash' = [dash EXCEPT ![t].pc = DashLockSites[dash[t].pc]]
    /\ UNCHANGED <<variant, state, sim, con, g>>

\* lines 129-133: while state.running, read outside the lock; fill the
\* screen; reach "with state.lock"
pygame_loop_while ==
    /\ variant = "dash" /\ dash.pyg.pc = "while"
    /\ dash' = [dash EXCEPT !.pyg.pc = IF state.running
                                       THEN "pygame_loop_with" ELSE "done"]
    /\ g' = NoteUnlocked("pyg", "running")
    /\ UNCHANGED <<variant, lock, state, sim, con>>

\* lines 134-137: new_volume = current_volume + net_flow * (1 / FPS), then
\* state.update_volume(new_volume) is called with the lock still held and
\* reaches "with self.lock" of line 45
pygame_loop_step ==
    /\ variant = "dash" /\ dash.pyg.pc = "pygame_loop_step" /\ lock = "pyg"
    /\ dash' = [dash EXCEPT
                  !.pyg.pc = "update_volume",
                  !.pyg.new_volume =
                      state.volume
                      + (state.inflow - state.outflow) * (UnitsPerLitre \div 30)]
    /\ UNCHANGED <<variant, lock, state, sim, con, g>>

\* a Dash callback begins: update_tank_image (line 248) calls get_surface,
\* update_volume_graph (line 275) calls get_history
dash_callback(site) ==
    /\ variant = "dash" /\ dash.cb.pc = "idle"
    /\ dash.cb.calls < MaxFlowWrites + 1
    /\ dash' = [dash EXCEPT !.cb.pc = site, !.cb.calls = @ + 1,
                            !.cb.returned = None]
    /\ UNCHANGED <<variant, lock, state, sim, con, g>>

\* update_flows(inflow, outflow) begins: line 308
update_flows_call(inflow, outflow) ==
    /\ variant = "dash" /\ dash.cb.pc = "idle"
    /\ dash.cb.calls < MaxFlowWrites + 1
    /\ dash' = [dash EXCEPT !.cb.pc = "update_flows",
                            !.cb.inflow = inflow, !.cb.outflow = outflow,
                            !.cb.calls = @ + 1,
                            !.cb.returned = None]
    /\ UNCHANGED <<variant, lock, state, sim, con, g>>

\* line 70: return self._pygame_surface
get_surface_body ==
    /\ variant = "dash" /\ dash.cb.pc = "get_surface_body" /\ lock = "cb"
    /\ lock' = "free"
    /\ dash' = [dash EXCEPT !.cb.pc = "idle",
                            !.cb.returned = <<state._pygame_surface>>]
    /\ UNCHANGED <<variant, state, sim, con, g>>

\* line 74: return copies of the histories
get_history_body ==
    /\ variant = "dash" /\ dash.cb.pc = "get_history_body" /\ lock = "cb"
    /\ lock' = "free"
    /\ dash' = [dash EXCEPT !.cb.pc = "idle",
                            !.cb.returned = <<state.time_history,
                                              state.volume_history>>]
    /\ UNCHANGED <<variant, state, sim, con, g>>

\* lines 309-314: take over the values that are not None; return 100
update_flows_body ==
    /\ variant = "dash" /\ dash.cb.pc = "update_flows_body" /\ lock = "cb"
    /\ lock' = "free"
    /\ state' = [state EXCEPT
                   !.inflow = IF dash.cb.inflow # <<>>
                              THEN dash.cb.inflow[1] ELSE @,
                   !.outflow = IF dash.cb.outflow # <<>>
                               THEN dash.cb.outflow[1] ELSE @]
    /\ dash' = [dash EXCEPT !.cb.pc = "idle", !.cb.returned = <<100>>]
    /\ UNCHANGED <<variant, sim, con, g>>

NextDash ==
    \/ \E t \in DashThreads : dash_lock_acquire(t)
    \/ pygame_loop_while
    \/ pygame_loop_step
    \/ \E site \in {"get_surface", "get_history"} : dash_callback(site)
    \/ \E inflow \in DashFlowInputs, outflow \in DashFlowInputs :
          update_flows_call(inflow, outflow)
    \/ get_surface_body
    \/ get_history_body
    \/ update_flows_body

----------------------------------------------------------------------------
(* tank_dash.py: SharedState.update_volume called by a thread that does    *)
(* not hold the lock                                                       *)

\* the number of calls of update_volume that are followed
MaxCalls == 103

\* the number of points update_volume keeps (line 51)
HistoryLimit == 100

\* net flows in litres per second, and the time.time() difference between two
\* calls in clock ticks (0: the clock has not advanced between them)
CallerNetFlows == {20, -20, 100}
CallerClockSteps == {0, 1}

\* a faulty variant of the operator below, list.pop(): C15 must reject it
PopLast(seq) == SubSeq(seq, 1, Len(seq) - 1)

\* list.pop(0)
PopFirst(seq) == Tail(seq)

\* lines 46-53, the body of update_volume(volume) with
\* current_time = time.time() - self.start_time
update_volume(st, volume, current_time) ==
    LET v == ClampVolume(volume)
        vh == Append(st.volume_history, v)
        th == Append(st.time_history, current_time)
        full == Len(vh) > HistoryLimit
    IN  [st EXCEPT !.volume = v,
                   !.volume_history = IF full THEN PopFirst(vh) ELSE vh,
                   !.time_history = IF full THEN PopFirst(th) ELSE th]

\* a fresh SharedState and a caller thread that is about to make its first
\* call
InitUpdateVolume ==
    /\ variant = "dash"
    /\ lock = "free"
    /\ state = [volume |-> 0, inflow |-> 50, outflow |-> 30,
                _pygame_surface |-> None,
                pygame_surface |-> None,
                volume_history |-> <<>>,
                time_history |-> <<>>,
                running |-> TRUE]
    /\ sim = [pc |-> "none"]
    /\ con = [pc |-> "none"]
    /\ \E net \in CallerNetFlows, dt \in CallerClockSteps :
          dash = [pyg |-> [pc |-> "call", new_volume |-> 0, calls |-> 0,
                           net_flow |-> net, clock_step |-> dt],
                  cb |-> [pc |-> "idle", inflow |-> <<>>, outflow |-> <<>>,
                          calls |-> 0, returned |-> None]]
    /\ g = NoHistory

\* the caller computes the next volume as lines 134-136 do and calls
\* state.update_volume(new_volume): it reaches "with self.lock" of line 45
update_volume_call ==
    /\ variant = "dash" /\ dash.pyg.pc = "call"
    /\ dash.pyg.calls < MaxCalls
    /\ dash' = [dash EXCEPT
                  !.pyg.pc = "update_volume",
                  !.pyg.new_volume =
                      state.volume
                      + dash.pyg.net_flow * (UnitsPerLitre \div 30)]
    /\ UNCHANGED <<variant, lock, state, sim, con, g>>

\* lines 46-53 under the lock, which is released on return
update_volume_body ==
    /\ variant = "dash" /\ dash.pyg.pc = "update_volume_body" /\ lock = "pyg"
    /\ lock' = "free"
    /\ state' = update_volume(state, dash.pyg.new_volume,
                              (dash.pyg.calls + 1) * dash.pyg.clock_step)
    /\ dash' = [dash EXCEPT !.pyg.pc = "call", !.pyg.calls = @ + 1]
    /\ UNCHANGED <<variant, sim, con, g>>

NextUpdateVolume ==
    \/ update_volume_call
    \/ dash_lock_acquire("pyg")
    \/ update_volume_body

SpecUpdateVolume == InitUpdateVolume /\ [][NextUpdateVolume]_vars

----------------------------------------------------------------------------
(* tank_dash.py: the part of a pass of pygame_loop that follows the volume *)
(* update, and the passes after it                                         *)

\* the render thread has left the block of lines 133-137 and stands at line
\* 139; the callback worker is idle
InitRender ==
    /\ variant = "dash"
    /\ lock = "free"
    /\ state = [volume |-> 0, inflow |-> 50, outflow |-> 30,
                _pygame_surface |-> None,
                pygame_surface |-> None,
                volume_history |-> <<>>,
                time_history |-> <<>>,
                running |-> TRUE]
    /\ sim = [pc |-> "none"]
    /\ con = [pc |-> "none"]
    /\ dash = [pyg |-> [pc |-> "draw", new_volume |-> 0],
               cb |-> [pc |-> "idle", inflow |-> <<>>, outflow |-> <<>>,
                       calls |-> 0, returned |-> None]]
    /\ g = NoHistory

\* lines 139-151: draw the tank and the text with state.volume read outside
\* the lock, convert the screen to an image; reach "with state.lock" of line
\* 153
pygame_loop_draw ==
    /\ variant = "dash" /\ dash.pyg.pc = "draw"
    /\ dash' = [dash EXCEPT !.pyg.pc = "pygame_loop_save",
                            !.pyg.new_volume = state.volume]
    /\ g' = NoteUnlocked("pyg", "volume")
    /\ UNCHANGED <<variant, lock, state, sim, con>>

\* lines 153-156: state.pygame_surface = temp_surface under the lock, which
\* is released; clock.tick(FPS); back to the loop test
pygame_loop_save_body ==
    /\ variant = "dash" /\ dash.pyg.pc = "pygame_loop_save_body"
    /\ lock = "pyg"
    /\ lock' = "free"
    /\ state' = [state EXCEPT
                   !.pygame_surface = [frame_of |-> dash.pyg.new_volume]]
    /\ dash' = [dash EXCEPT !.pyg.pc = "while"]
    /\ UNCHANGED <<variant, sim, con, g>>

NextRender ==
    \/ pygame_loop_draw
    \/ pygame_loop_save_body
    \/ NextDash

SpecRender == InitRender /\ [][NextRender]_vars

----------------------------------------------------------------------------
(* main.py and tank_simulation.py: one MOUSEMOTION event with the pointer  *)
(* anywhere, while a slider is being dragged                               *)

\* how far outside the slider the pointer positions go
PointerMargin == 2

slider_height == 20

\* pointer positions relative to the top left corner of the slider
PointerXs == (0 - PointerMargin) .. (slider_width + PointerMargin)
PointerYs == {0 - 1, 0, slider_height - 1, slider_height}

\* pygame.Rect.collidepoint for the rectangle draw_slider returns: the right
\* and the bottom edge are outside
collidepoint(rel_x, rel_y) ==
    /\ 0 <= rel_x /\ rel_x < slider_width
    /\ 0 <= rel_y /\ rel_y < slider_height

\* main.py lines 319-327: new_factor = update_slider_value(...), None when
\* the pointer is outside the slider; state.factor = new_factor under the
\* lock if it is not None
vehicle_main_pointer(rel_x, rel_y) ==
    /\ variant = "main" /\ con.pc = "events" /\ con.slider_rect
    /\ con.writes = 0
    /\ lock = "free"
    /\ IF collidepoint(rel_x, rel_y)
       THEN /\ state' = [state EXCEPT !.factor =
                            update_slider_value(rel_x, vehicle_min_factor,
                                                vehicle_max_factor)]
            /\ con' = [con EXCEPT !.writes = 1]
            /\ g' = NoteFactorWrite(g, state'.factor)
       ELSE UNCHANGED <<state, con, g>>
    /\ UNCHANGED <<variant, lock, sim, dash>>

\* tank_simulation.py lines 242-264, for the slider being dragged
tank_main_pointer(slider, rel_x, rel_y) ==
    /\ variant = "tank" /\ con.pc = "events" /\ con.slider_rect
    /\ con.writes = 0 /\ con.flow_writes = 0
    /\ lock = "free"
    /\ IF collidepoint(rel_x, rel_y)
       THEN /\ LET new_value == TankSliderValue(slider, rel_x)
               IN  state' = CASE slider = "speed" ->
                                   [state EXCEPT !.factor = new_value]
                              [] slider = "inflow" ->
                                   [state EXCEPT !.inflow_rate = new_value]
                              [] OTHER ->
                                   [state EXCEPT !.outflow_rate = new_value]
            /\ con' = [con EXCEPT
                         !.writes = IF slider = "speed" THEN 1 ELSE 0,
                         !.flow_writes = IF slider = "speed" THEN 0 ELSE 1]
            /\ g' = IF slider = "speed"
                    THEN NoteFactorWrite(g, state'.factor) ELSE g
       ELSE UNCHANGED <<state, con, g>>
    /\ UNCHANGED <<variant, lock, sim, dash>>

\* the consumer alone: it draws frames, and one pointer event arrives
NextSlider ==
    \/ vehicle_main_snapshot
    \/ vehicle_main_draw
    \/ \E x \in PointerXs, y \in PointerYs : vehicle_main_pointer(x, y)
    \/ tank_main_snapshot
    \/ tank_main_draw
    \/ \E slider \in {"speed", "inflow", "outflow"}, x \in PointerXs,
          y \in PointerYs : tank_main_pointer(slider, x, y)

SpecSlider == (InitMain \/ InitTank) /\ [][NextSlider]_vars

----------------------------------------------------------------------------
(* main.py: linear_interpolate, called on its own                          *)

\* the largest coordinate, in absolute value, of the points A and B
MaxCoord == 2

\* t runs over the multiples of 1 / TSteps from -1 / TSteps to
\* 1 + 1 / TSteps
TSteps == 4

Coords == (0 - MaxCoord) .. MaxCoord
Points == Coords \X Coords
TNumerators == (0 - 1) .. (TSteps + 1)

\* int(n / d) for d > 0: int() rounds toward zero
IntOfQuotient(n, d) == IF n >= 0 THEN n \div d ELSE 0 - ((0 - n) \div d)

\* a faulty variant of the operator below, without the clamp of line 235:
\* C21 must reject it
linear_interpolate_unclamped(pos_a, pos_b, n, d) ==
    <<IntOfQuotient(pos_a[1] * d + (pos_b[1] - pos_a[1]) * n, d),
      IntOfQuotient(pos_a[2] * d + (pos_b[2] - pos_a[2]) * n, d)>>

\* lines 235-238 for t = n / d: t = max(0.0, min(1.0, t));
\* x = pos_a[0] + (pos_b[0] - pos_a[0]) * t, y likewise;
\* return (int(x), int(y))
linear_interpolate(pos_a, pos_b, n, d) ==
    LET t == Clamp(n, 0, d)
    IN  <<IntOfQuotient(pos_a[1] * d + (pos_b[1] - pos_a[1]) * t, d),
          IntOfQuotient(pos_a[2] * d + (pos_b[2] - pos_a[2]) * t, d)>>

\* two calls with the same points and t1 <= t2 are about to be made
InitInterpolate ==
    /\ variant = "interpolate"
    /\ lock = "free"
    /\ \E pos_a \in Points, pos_b \in Points,
          n1 \in TNumerators, n2 \in TNumerators :
          /\ n1 <= n2
          /\ state = [pos_a |-> pos_a, pos_b |-> pos_b, t1 |-> n1, t2 |-> n2,
                      at_t1 |-> None, at_t2 |-> None]
    /\ sim = [pc |-> "none"]
    /\ con = [pc |-> "call"]
    /\ dash = None
    /\ g = NoHistory

\* both calls return
linear_interpolate_call ==
    /\ variant = "interpolate" /\ con.pc = "call"
    /\ state' = [state EXCEPT
                   !.at_t1 = linear_interpolate(state.pos_a, state.pos_b,
                                                state.t1, TSteps),
                   !.at_t2 = linear_interpolate(state.pos_a, state.pos_b,
                                                state.t2, TSteps)]
    /\ con' = [con EXCEPT !.pc = "returned"]
    /\ UNCHANGED <<variant, lock, sim, dash, g>>

SpecInterpolate == InitInterpolate /\ [][linear_interpolate_call]_vars

----------------------------------------------------------------------------
(* main.py and tank_simulation.py: the supervisor's polls, also in a run   *)
(* whose speed slider was dragged before the supervisor's first read       *)

\* main.py after the consumer drew one frame and dragged the slider to
\* rel_x: state.factor holds the slider's value, the supervisor has not
\* read it yet; con.writes counts the drags that follow
InitPoll ==
    \/ InitMain
    \/ InitTank
    \/ \E rel_x \in SliderXs :
          /\ variant = "main"
          /\ lock = "free"
          /\ state = [current_pos |-> <<50, SCREEN_HEIGHT \div 2>>,
                      target_pos |-> <<50, SCREEN_HEIGHT \div 2>>,
                      message |-> [kind |-> "Initializing"],
                      running |-> TRUE,
                      factor |-> update_slider_value(rel_x,
                                     vehicle_min_factor, vehicle_max_factor)]
          /\ sim = [pc |-> "start", current_factor |-> InitialFactor,
                    is_running |-> FALSE, last_pos |-> None,
                    last_target |-> None, new_factor |-> InitialFactor,
                    now |-> 0, until |-> 0, env_factor |-> InitialFactor,
                    engine |-> 0, old |-> [pc |-> "none"],
                    p |-> [pc |-> "none"]]
          /\ con = [pc |-> "events", running |-> TRUE, slider_rect |-> TRUE,
                    writes |-> 0]
          /\ dash = None
          /\ g = [NoHistory EXCEPT !.unlocked = {<<"con", "factor">>}]

NextPoll == NextMain \/ NextTank

SpecPoll == InitPoll /\ [][NextPoll]_vars

----------------------------------------------------------------------------
(* main.py: one segment and its dwell on an engine of a fixed factor       *)

\* the factors a segment is followed for: the 1.0 of construction and 2.0
SegmentFactors == {Frac(1, 1), Frac(2, 1)}

\* (env.now - start_time) * current_factor and total_duration are the same
\* real number: the comparison of line 121 is made on floating-point values,
\* env.now being a sum of rounded terms 1/360, and goes either way
MotionTie(elapsed, f, dist10) ==
    ProgressNum(elapsed, f) = ProgressDen(dist10, f)

\* lines 95-119 for the segment from waypoints[idx] on create_env(f):
\* the process has read f, chosen the segment and stands at the loop test
InitSegment ==
    /\ variant = "segment"
    /\ lock = "free"
    /\ \E f \in SegmentFactors, idx \in 0 .. (NumWaypoints - 1) :
          /\ state = [factor |-> f, running |-> TRUE,
                      current_pos |-> Waypoint(idx),
                      target_pos |-> Waypoint(idx + 1)]
          /\ sim = [pc |-> "loop", env_factor |-> f, current_factor |-> f,
                    current_pos |-> Waypoint(idx),
                    target_pos |-> Waypoint(idx + 1),
                    dist10 |-> Dist10(Waypoint(idx), Waypoint(idx + 1)),
                    start_time |-> 0, now |-> 0, arrival |-> 0, wake |-> 0]
    /\ con = [pc |-> "none"]
    /\ dash = None
    /\ g = NoHistory

\* the positions line 126 can publish at such a tie: progress is 1.0 up to
\* rounding, so int() gives the target's coordinate or the one below it on
\* an axis the segment moves along
TiePositions(from, to) ==
    {pos \in (((to[1] - 1) .. to[1]) \X ((to[2] - 1) .. to[2])) :
        /\ from[1] = to[1] => pos[1] = to[1]
        /\ from[2] = to[2] => pos[2] = to[2]}

\* lines 121-129: the loop test holds; publish the position, suspend for
\* update_interval, resume
segment_tick ==
    /\ variant = "segment" /\ sim.pc = "loop"
    /\ LET elapsed == sim.now - sim.start_time
       IN  \/ /\ MotionContinues(elapsed, sim.current_factor, sim.dist10)
              /\ state' = [state EXCEPT !.current_pos =
                              MotionPosition(sim.current_pos, sim.target_pos,
                                             elapsed, sim.current_factor,
                                             sim.dist10)]
           \/ /\ MotionTie(elapsed, sim.current_factor, sim.dist10)
              /\ \E pos \in TiePositions(sim.current_pos, sim.target_pos) :
                    state' = [state EXCEPT !.current_pos = pos]
    /\ sim' = [sim EXCEPT !.now = @ + vehicle_update_interval]
    /\ UNCHANGED <<variant, lock, con, dash, g>>

\* lines 121 and 135-144: the loop test fails; publish the target, suspend
\* for wait_duration / current_factor / current_factor
segment_arrive ==
    /\ variant = "segment" /\ sim.pc = "loop"
    /\ ~MotionContinues(sim.now - sim.start_time, sim.current_factor,
                        sim.dist10)
    /\ state' = [state EXCEPT !.current_pos = sim.target_pos]
    /\ sim' = [sim EXCEPT !.pc = "wait_dwell",
                          !.arrival = sim.now,
                          !.wake = sim.now + DwellTime(sim.current_factor)]
    /\ UNCHANGED <<variant, lock, con, dash, g>>

\* the timeout of line 144 fires
segment_dwell_over ==
    /\ variant = "segment" /\ sim.pc = "wait_dwell"
    /\ sim' = [sim EXCEPT !.pc = "pass", !.now = sim.wake]
    /\ UNCHANGED <<variant, lock, state, con, dash, g>>

NextSegment == segment_tick \/ segment_arrive \/ segment_dwell_over

SpecSegment == InitSegment /\ [][NextSegment]_vars

----------------------------------------------------------------------------
(* The three programs together                                             *)

Init == InitMain \/ InitTank \/ InitDash

Next == NextMain \/ NextTank \/ NextDash

Spec == Init /\ [][Next]_vars

\* the main thread of main.py and of tank_simulation.py is never starved: it
\* goes on with the frame it is in, and with the statements after its loop
ConsumerStep ==
    \/ vehicle_main_snapshot \/ vehicle_main_draw
    \/ vehicle_main_stop \/ vehicle_main_exit
    \/ tank_main_snapshot \/ tank_main_draw
    \/ tank_main_stop \/ tank_main_exit

\* every step of the three programs but the slider moves and the steps that
\* only follow a slider move
NextNoSlider ==
    \/ vehicle_run_simulation_init
    \/ vehicle_run_simulation_exit
    \/ vehicle_run_simulation_poll
    \/ vehicle_run_simulation_slice_end
    \/ vehicle_run_simulation_fail
    \/ vehicle_process_start
    \/ vehicle_process_read_factor
    \/ vehicle_process_publish_target
    \/ vehicle_process_update_position
    \/ vehicle_process_tick
    \/ vehicle_process_fault
    \/ vehicle_process_handler
    \/ vehicle_main_quit
    \/ vehicle_main_snapshot
    \/ vehicle_main_draw
    \/ vehicle_main_stop
    \/ vehicle_main_exit
    \/ tank_run_simulation_init
    \/ tank_run_simulation_exit
    \/ tank_run_simulation_poll
    \/ tank_run_simulation_slice_end
    \/ tank_run_simulation_reread
    \/ tank_run_simulation_fail
    \/ tank_process_start
    \/ tank_process_read_rates
    \/ tank_process_update_volume
    \/ tank_process_publish_message
    \/ tank_process_tick
    \/ tank_process_fault
    \/ tank_main_quit
    \/ tank_main_snapshot
    \/ tank_main_draw
    \/ tank_main_stop
    \/ tank_main_exit
    \/ NextDash

\* the three programs with main threads that are not starved
SpecFairAll == Spec /\ WF_vars(ConsumerStep)

\* the same when nobody touches a slider
SpecFair == Init /\ [][NextNoSlider]_vars /\ WF_vars(ConsumerStep)

----------------------------------------------------------------------------
(* Properties                                                              *)

\* the fields a process runner publishes for the consumer
Published ==
    CASE variant = "main" ->
           <<state.current_pos, state.target_pos, state.message>>
      [] variant = "tank" -> <<state.current_volume, state.message>>
      [] OTHER -> <<state.volume>>

\* C1: in every variant no thread blocks forever on the shared-state lock:
\* every acquisition is followed by a release, so the thread that holds the
\* lock is never itself standing at an acquisition of it.
C1_HolderNeverWaits ==
    \A t \in DashThreads : ~(lock = t /\ WaitingForLock(t))

\* C2: once state.running is false, the simulation thread writes no
\* published field (position, target, volume, message) any more.
C2_NoWriteAfterStop ==
    [][~state.running => Published' = Published]_vars

\* C3: once state.running is false, no step of any thread of any variant
\* sets it back to true.
C3_RunningNeverReset ==
    [][~state.running => ~state.running']_vars

\* a run in which the flag went false and both threads went on to their end
C3_Witness ==
    /\ variant = "tank"
    /\ ~state.running
    /\ sim.pc = "done"
    /\ con.pc = "stopped"

\* C4: once state.running is false the supervisor loop exits: when the
\* supervisor is back at its loop test after a slice that ended with the
\* flag false (and no exception was raised), the test fails.
C4_SupervisorExits ==
    (sim.pc = "test" /\ g.stopped_at_slice_end /\ ~g.faulted)
        => ~sim.is_running

\* the resumed process has published its target and has not arrived yet
Resuming == variant = "main" /\ g.resume.active /\ g.first_target # None

\* twice the signed area of the triangle p, a, b: zero when p is on the
\* line through a and b
Cross(p, a, b) ==
    (p[1] - a[1]) * (b[2] - a[2]) - (p[2] - a[2]) * (b[1] - a[1])

\* p lies in the rectangle spanned by a and b
InBox(p, a, b) ==
    /\ (a[1] <= p[1] /\ p[1] <= b[1]) \/ (b[1] <= p[1] /\ p[1] <= a[1])
    /\ (a[2] <= p[2] /\ p[2] <= b[2]) \/ (b[2] <= p[2] /\ p[2] <= a[2])

\* the first target the resumed process publishes is the target T the
\* supervisor saw
FirstTargetIsT ==
    (variant = "main" /\ g.first_target # None)
        => g.first_target = g.resume.to

\* C5, as stated: after a factor change seen with position P and target T,
\* the first target the new process publishes is T, and every position
\* published before arrival lies on the segment from P to T.
C5_ResumeOnSegment ==
    /\ FirstTargetIsT
    /\ Resuming =>
         /\ InBox(state.current_pos, g.resume.from, g.resume.to)
         /\ Cross(state.current_pos, g.resume.from, g.resume.to) = 0

\* C5, amended: the first target the new process publishes is T, and every
\* position published before arrival is a point of the segment from P to T
\* with each coordinate truncated to a whole pixel.
C5_ResumeNearSegment ==
    /\ FirstTargetIsT
    /\ Resuming =>
         /\ InBox(state.current_pos, g.resume.from, g.resume.to)
         /\ Abs(Cross(state.current_pos, g.resume.from, g.resume.to))
              <= Abs(g.resume.to[1] - g.resume.from[1])
                 + Abs(g.resume.to[2] - g.resume.from[2])

\* a resumed process is under way between P and T
C5_Witness ==
    /\ Resuming
    /\ g.resume.from # g.resume.to
    /\ state.current_pos # g.resume.from
    /\ state.current_pos # g.resume.to

\* C6: over any factor changes, each new target published follows the one
\* before it in the waypoint cycle.
C6_WaypointCycle ==
    [][(variant = "main" /\ state.target_pos' # state.target_pos) =>
          \E k \in 1..NumWaypoints :
             /\ state.target_pos = waypoints[k]
             /\ state.target_pos' = waypoints[(k % NumWaypoints) + 1]]_vars

\* after a factor change the cycle has gone on to the third waypoint
C6_Witness ==
    /\ variant = "main"
    /\ g.rebuilds > 0
    /\ state.target_pos = waypoints[3]

\* C7: every snapshot the consumer takes under the lock shows values written
\* by one single step of the process runner: in tank_simulation.py the volume
\* and the message it copies come from the same pass.
C7_SnapshotOfOneStep ==
    [][(variant = "tank" /\ con.pc = "events" /\ con.pc' = "draw")
          => g.vol_pass = g.msg_pass]_vars

\* C8: every read or write of a shared-state field is made by a thread
\* that holds the lock.
C8_AllAccessUnderLock == g.unlocked = {}

\* C9: a process runner that hits a fault in its step logic has set
\* state.running to false when it exits.
C9_FaultStopsFlag ==
    (g.faulted /\ sim.pc = "run" /\ sim.p.pc = "done") => ~state.running

\* C10: after state.running is false the process runner passes at most one
\* more suspend point before it exits.
C10_OneSuspendPoint == g.wakes_after_stop <= 1

\* the factor argument of RealtimeEnvironment that create_env(f) passes
EngineFactor(f) == IF variant = "tank" THEN TankEnvFactor(f) ELSE f

\* C11: at the start of every slice the engine in use was built by
\* create_env for the factor the supervisor read from shared state in the
\* same iteration; a slice begun straight after the read runs on an engine
\* built for the factor shared state holds, and a slice begun after a change
\* of factor runs a new process on a new engine.
C11_EngineFollowsFactor ==
    [][(sim.pc # "run" /\ sim.pc' = "run") =>
          /\ sim.new_factor' = sim.current_factor'
          /\ sim.env_factor' = EngineFactor(sim.new_factor')
          /\ sim.pc = "test" => sim.env_factor' = EngineFactor(state.factor)
          /\ sim.pc # "test" =>
                (sim.p.pc' = "start" /\ sim.now' = 0 /\ sim.p.wake' = 0)]_vars

\* a slice is under way on an engine rebuilt for a factor the consumer set
C11_Witness ==
    /\ variant \in {"main", "tank"}
    /\ sim.pc = "run"
    /\ g.rebuilds > 0
    /\ sim.current_factor # InitialFactor
    /\ sim.current_factor = state.factor

\* the process instances whose events are in the queue of the engine that
\* env.run is given, and which can therefore take steps
LiveRunners ==
    {r \in {sim.p, sim.old} : r.pc \notin {"none", "done"}
                              /\ r.engine = sim.engine}

\* the process that can step is the one registered on the engine in use; a
\* process left behind is registered on an earlier engine
RunnerOnEngineInUse ==
    variant \in {"main", "tank"} =>
          /\ Cardinality(LiveRunners) <= 1
          /\ sim.old.pc # "none" => sim.old.engine < sim.engine
          /\ sim.p.pc # "none" => sim.p.engine = sim.engine

\* once a process is left behind it takes no step: the record of it changes
\* only when the next rebuild leaves the next process behind (or the thread
\* ends)
OldRunnerFrozen ==
    [][(variant \in {"main", "tank"} /\ sim.old' # sim.old) =>
          (sim.pc' \in {"done", "killed"} \/ sim.old' = Discarded(sim.p))]_vars

\* C12: at most one process-runner instance is able to take steps: the
\* process left behind by a rebuild sits in the queue of the discarded
\* engine, is never stepped again and so never writes shared state; only
\* the process registered on the engine in use can.
C12_OneRunner == []RunnerOnEngineInUse /\ OldRunnerFrozen

\* after a rebuild the new process has taken steps while the one left behind
\* was suspended half-way
C12_Witness ==
    /\ variant \in {"main", "tank"}
    /\ sim.old.pc \in {"wait_tick", "wait_dwell"}
    /\ sim.p.pc = "wait_tick"
    /\ sim.now > 0

ClosedFormVolume(V, n, I, O) ==
    LET net120 == (I.n * 120) \div I.d - (O.n * 120) \div O.d
    IN  Clamp(V + (n * net120) \div 60, 0, MAX_VOLUME * 120)

\* the passes of the loop of tank_process completed by a suspended process
\* of the first engine
TicksDone == sim.p.wake \div tank_update_interval

DefaultFlows ==
    state.inflow_rate = Frac(50, 1) /\ state.outflow_rate = Frac(30, 1)

VolumeIsClosedForm ==
    (variant = "tank" /\ sim.p.pc = "wait_tick") =>
        state.current_volume =
            ClosedFormVolume(0, TicksDone, state.inflow_rate, state.outflow_rate)

TwoHundredLitresAfterTenSeconds ==
    (variant = "tank" /\ DefaultFlows /\ sim.now = 10 * UnitsPerSecond
       /\ sim.p.pc \in {"wait_tick", "pass", "updated"}) =>
        Abs(state.current_volume - Litres(200)) <= UnitsPerLitre \div 3

StrictlyIncreasing ==
    [][(variant = "tank" /\ DefaultFlows
          /\ sim.p.pc = "computed" /\ sim.p.pc' = "updated") =>
             state.current_volume' > state.current_volume]_vars

\* C14: in tank_simulation.py with constant inflow I and outflow O, start
\* volume V and no factor change, the published volume after n ticks is
\* clamp(V + n * (I - O) * (1/60), 0, MAX_VOLUME); for I = 50, O = 30 and
\* V = 0 every tick raises it, and it is 200 L to within 1/3 L after 10
\* simulated seconds.
C14_EulerVolume ==
    /\ []VolumeIsClosedForm
    /\ []TwoHundredLitresAfterTenSeconds
    /\ StrictlyIncreasing

\* ten simulated seconds have passed with the default flows and 200 L are
\* published
C14_Witness ==
    /\ variant = "tank" /\ DefaultFlows
    /\ sim.now = 10 * UnitsPerSecond
    /\ sim.p.pc = "pass"
    /\ state.current_volume = Litres(200)
    /\ g.rebuilds = 0

\* the sample the i-th call of the caller thread stores: its clock reading
\* and the volume after i steps from 0
SampleTime(i) == i * dash.pyg.clock_step
SampleVolume(i) ==
    Clamp(i * dash.pyg.net_flow * (UnitsPerLitre \div 30), 0, Litres(MAX_VOLUME))

\* C15: after N calls of SharedState.update_volume, volume_history and
\* time_history have the same length min(N, 100) and hold the most recent
\* samples in the order of the calls.
C15_HistoryIsLastHundred ==
    (variant = "dash" /\ "calls" \in DOMAIN dash.pyg) =>
        LET N == dash.pyg.calls
            len == IF N < 100 THEN N ELSE 100
        IN  /\ Len(state.volume_history) = len
            /\ Len(state.time_history) = len
            /\ \A k \in 1..len :
                  /\ state.time_history[k] = SampleTime(N - len + k)
                  /\ state.volume_history[k] = SampleVolume(N - len + k)

\* more than 100 calls have been made: the oldest samples are gone
C15_Witness ==
    /\ variant = "dash" /\ "calls" \in DOMAIN dash.pyg
    /\ dash.pyg.calls > 100
    /\ dash.pyg.clock_step = 1
    /\ Len(state.time_history) = 100
    /\ state.time_history[1] = dash.pyg.calls - 99
    /\ state.volume_history[100] = state.volume

ConsumerLeftLoop == con.pc \in {"cleanup", "stopped", "exited"}

\* C17: when state.running has become false, the consumer of main.py and of
\* tank_simulation.py sees it in the locked snapshot of its next frame and
\* leaves its loop: running = false is always eventually followed by the
\* consumer loop having been left.
C17_ConsumerLeavesLoop ==
    /\ (variant \in {"main", "tank"} /\ ~state.running) ~> ConsumerLeftLoop
    /\ [][(variant \in {"main", "tank"} /\ ~state.running
             /\ con.pc = "events" /\ con.pc' = "draw") => ~con.running']_vars
    /\ [][(variant \in {"main", "tank"} /\ ~con.running
             /\ con.pc = "draw" /\ con.pc' # "draw") => ConsumerLeftLoop']_vars

\* the simulation has faulted and cleared the flag, and the consumer has left
\* its loop before clearing the flag itself
C17_Witness ==
    /\ variant \in {"main", "tank"}
    /\ g.faulted
    /\ ~state.running
    /\ con.pc = "cleanup"

\* lo/10 <= f <= hi/10 for a fraction f
FracWithin(f, lo10, hi10) ==
    /\ f.d > 0
    /\ lo10 * f.d <= 10 * f.n
    /\ 10 * f.n <= hi10 * f.d

FirstTick == UnitsPerSecond \div 360
FirstArrival == (700 * UnitsPerSecond) \div 150
FirstDeparture == FirstArrival + 2 * UnitsPerSecond

\* the simulated time at which the suspended process published its last
\* position
LastTick == sim.p.wake - FirstTick

\* while the process moves on the first segment it has published the target
\* (750, 300) and, at the tick of time t, the position 700 * t / 4.667 s to
\* the right of (50, 300), rounded down; there are 1680 such ticks
FirstSegmentMotion ==
    (sim.p.pc = "wait_tick" /\ sim.p.idx = 0) =>
        /\ state.target_pos = <<750, 300>>
        /\ LastTick % FirstTick = 0
        /\ LastTick \div FirstTick < 1680
        /\ state.current_pos =
              <<50 + (700 * (LastTick \div FirstTick)) \div 1680, 300>>

\* the exact target is published after the 1680th tick, and the dwell that
\* follows ends 2.0 s later
FirstSegmentArrival ==
    /\ (sim.p.pc \in {"arrive", "arrived"} /\ sim.p.idx = 0) =>
           sim.now = 1680 * FirstTick
    /\ (sim.p.pc \in {"arrived", "wait_dwell"} /\ sim.p.idx = 0) =>
           (state.current_pos = <<750, 300>> /\ state.target_pos = <<750, 300>>)
    /\ (sim.p.pc = "wait_dwell" /\ sim.p.idx = 0) =>
           sim.p.wake = FirstDeparture

\* the next target is the waypoint after (750, 300) and is not published
\* before the dwell is over
SecondTargetAfterDwell ==
    /\ state.target_pos \in {<<50, 300>>, <<750, 300>>, <<750, 50>>}
    /\ state.target_pos = <<750, 50>> =>
           (sim.p.idx = 1 /\ sim.now >= FirstDeparture)
    /\ (sim.p.pc = "wait_tick" /\ sim.p.idx = 1) =>
           state.target_pos = <<750, 50>>

WallDelay(d, env_factor) == Frac(d * env_factor.n, env_factor.d)

\* the simulated time the suspended process asked to be suspended for
SuspendDuration ==
    IF sim.p.pc = "wait_dwell" THEN DwellTime(sim.p.current_factor)
    ELSE IF variant = "tank" THEN tank_update_interval
    ELSE vehicle_update_interval

\* C20: for every suspend of d simulated seconds under the speed factor f
\* the engine was built for by create_env(f), the wall-clock delay the
\* engine imposes is d / f, in main.py and in tank_simulation.py.
C20_WallDelayIsDOverF ==
    (variant \in {"main", "tank"} /\ sim.pc = "run"
       /\ sim.p.pc \in {"wait_tick", "wait_dwell"}) =>
        WallDelay(SuspendDuration, sim.env_factor) =
            Frac(SuspendDuration * sim.current_factor.d, sim.current_factor.n)

\* v lies between a and b, whichever is the larger
Between(v, a, b) == (a <= v /\ v <= b) \/ (b <= v /\ v <= a)

\* on axis i the result at t2 is at least as far from A towards B as the
\* result at t1, and both lie between A and B
AxisMonotonic(i) ==
    /\ Between(state.at_t1[i], state.pos_a[i], state.pos_b[i])
    /\ Between(state.at_t2[i], state.at_t1[i], state.pos_b[i])

\* C21: linear_interpolate(A, B, t) returns A for every t <= 0 and B for
\* every t >= 1, for all integer points A and B; for t1 <= t2 each
\* coordinate of the result at t2 is at least as far along from A towards B
\* as at t1, and never outside the range A..B.
C21_InterpolateEndsAndOrder ==
    (variant = "interpolate" /\ con.pc = "returned") =>
        /\ state.t1 <= 0 => state.at_t1 = state.pos_a
        /\ state.t2 <= 0 => state.at_t2 = state.pos_a
        /\ state.t1 >= TSteps => state.at_t1 = state.pos_b
        /\ state.t2 >= TSteps => state.at_t2 = state.pos_b
        /\ AxisMonotonic(1)
        /\ AxisMonotonic(2)

\* a call below 0 returned A and a call above 1 returned B, for points with
\* a negative coordinate that differ on both axes
C21_Witness ==
    /\ variant = "interpolate" /\ con.pc = "returned"
    /\ state.t1 < 0 /\ state.t2 > TSteps
    /\ state.pos_a[1] < 0 /\ state.pos_b[1] > state.pos_a[1]
    /\ state.pos_b[2] < state.pos_a[2]
    /\ state.at_t1 = state.pos_a /\ state.at_t2 = state.pos_b

\* the supervisor is between the detection of a changed factor and the
\* first slice of the new engine
Rebuilding == sim.pc \in {"rebuild", "save_volume", "restore_volume"}

\* the new vehicle_process publishes its first position: an interpolated one
\* or, on a segment of length zero, the target
FirstPublication ==
    /\ variant = "main" /\ sim.pc = "run" /\ g.rebuilds > 0
    /\ sim.now = 0
    /\ \/ sim.p.pc = "move" /\ sim.p.pc' = "wait_tick"
       \/ sim.p.pc = "arrive" /\ sim.p.pc' = "arrived"

\* C22: a factor-change rebuild does not lose or alter the published
\* result: the steps of the rebuild leave state.current_pos and
\* state.target_pos (main.py) and state.current_volume (tank_simulation.py)
\* unchanged, and the first position the new vehicle_process publishes is
\* the position published last before the rebuild.
C22_RebuildKeepsResult ==
    [][/\ (variant = "main" /\ (Rebuilding \/ Rebuilding')) =>
             /\ state.current_pos' = state.current_pos
             /\ state.target_pos' = state.target_pos
       /\ (variant = "tank" /\ (Rebuilding \/ Rebuilding')) =>
             state.current_volume' = state.current_volume
       /\ FirstPublication =>
             /\ state.current_pos' = state.current_pos
             /\ state.current_pos' = g.resume.from]_vars

\* the vehicle had left the first waypoint when the factor changed, and the
\* new process has published its first position
C22_Witness ==
    /\ variant = "main" /\ sim.pc = "run" /\ g.rebuilds > 0
    /\ sim.now = 0 /\ sim.p.pc = "wait_tick"
    /\ state.current_pos = g.resume.from
    /\ state.current_pos # <<50, 300>>

\* tank_process applies an increment to the shared volume
VolumeIncrement ==
    variant = "tank" /\ sim.p.pc = "computed" /\ sim.p.pc' = "updated"

PositionTick ==
    variant = "main" /\ sim.p.pc = "move" /\ sim.p.pc' = "wait_tick"

\* the published position lies between the start and the target of the
\* segment on both axes, and the progress it was computed for is below 1
OnSegment ==
    [][PositionTick =>
         /\ Between(state.current_pos'[1],
                    sim.p.current_pos[1], sim.p.target_pos[1])
         /\ Between(state.current_pos'[2],
                    sim.p.current_pos[2], sim.p.target_pos[2])
         /\ ProgressNum(sim.now - sim.p.start_time, sim.p.current_factor)
              < ProgressDen(sim.p.dist10, sim.p.current_factor)
         /\ state.target_pos = sim.p.target_pos]_vars

ArrivedAtTarget ==
    (variant = "main" /\ state.message.kind = "Arrived") =>
        state.current_pos = state.target_pos

\* C24: in main.py every position vehicle_process publishes during a
\* segment lies between the segment's start and its target on each axis
\* (progress in [0, 1), no overshoot), and the exact target is published
\* before the dwell begins: whenever state.message is the arrival message,
\* state.current_pos = state.target_pos.
C24_NoOvershoot == OnSegment /\ []ArrivedAtTarget

\* the vehicle has been published strictly inside the first segment and has
\* then arrived at its target
C24_Witness ==
    /\ variant = "main"
    /\ state.message.kind = "Arrived"
    /\ sim.p.pc = "wait_dwell"
    /\ sim.now > sim.p.start_time + vehicle_update_interval
    /\ state.current_pos = <<750, 300>>
    /\ state.target_pos = <<750, 300>>

\* a step of the simulation thread (supervisor or process), and a step of
\* the consumer thread
SimulationStep == sim' # sim /\ con' = con
ConsumerThreadStep == con' # con

ControlInputsUnchanged ==
    /\ state.factor' = state.factor
    /\ variant = "tank" =>
          /\ state.inflow_rate' = state.inflow_rate
          /\ state.outflow_rate' = state.outflow_rate

ResultsUnchanged ==
    /\ state.message' = state.message
    /\ variant = "main" =>
          /\ state.current_pos' = state.current_pos
          /\ state.target_pos' = state.target_pos
    /\ variant = "tank" => state.current_volume' = state.current_volume

\* C25: field ownership is respected by every action: the simulation thread
\* never writes state.factor, inflow_rate or outflow_rate, and the consumer
\* thread never writes position, target, volume or message; the liveness
\* flag is the only field both write.
C25_FieldOwnership ==
    [][(variant \in {"main", "tank"}) =>
         ((SimulationStep => ControlInputsUnchanged)
          /\ (ConsumerThreadStep => ResultsUnchanged))]_vars

\* the consumer has written the factor and the flag, the simulation thread
\* the position and, on a fault, the flag
C25_Witness ==
    /\ variant = "main"
    /\ state.factor # InitialFactor
    /\ state.current_pos # <<50, 300>>
    /\ g.faulted
    /\ con.pc = "stopped"
    /\ ~state.running

\* the supervisor reads the factor at the top of an iteration
SupervisorPoll ==
    /\ variant \in {"main", "tank"}
    /\ sim.pc = "test" /\ sim.is_running /\ sim'.pc # "test"
    /\ con' = con

\* a poll that reads the factor of the engine in use runs one slice on that
\* engine, with the process there is
SamePollRunsSlice ==
    (SupervisorPoll /\ state.factor = sim.current_factor) =>
        (/\ sim'.pc = "run"
         /\ sim'.until = sim.now + check_interval
         /\ sim'.now = sim.now
         /\ sim'.engine = sim.engine
         /\ sim'.p = sim.p
         /\ sim'.old = sim.old
         /\ sim'.env_factor = sim.env_factor
         /\ sim'.current_factor = sim.current_factor
         /\ state' = state)

\* the factor of an engine stays the one create_env built it with
EngineFactorFixed ==
    (variant \in {"main", "tank"} /\ sim.engine > 0
       /\ sim'.engine = sim.engine) =>
        sim'.env_factor = sim.env_factor

\* C26: a supervisor iteration that reads a factor equal to the factor of
\* the current engine performs no rebuild: the engine instance and the
\* process instance are unchanged and only env.run for one slice is
\* executed; the factor of an engine never changes after create_env built
\* it, so a factor that changed and changed back between two polls causes
\* no rebuild.
C26_NoRebuildOnSameFactor ==
    [][SamePollRunsSlice /\ EngineFactorFixed]_vars

\* the slider was moved away and back between two reads of the supervisor:
\* the slice that follows runs on the engine of the first read
C26_Witness ==
    /\ variant = "main"
    /\ g.excursion = "missed"
    /\ sim.pc = "run"
    /\ g.rebuilds = 0 /\ sim.engine = 1
    /\ sim.env_factor = state.factor

\* the process of the engine in use was started by a rebuild whose snapshot
\* had the position at the target
ZeroLengthResume ==
    /\ variant = "main"
    /\ sim.p.pc \notin {"none", "start"}
    /\ g.resume.from # None
    /\ g.resume.from = g.resume.to

\* the index the restarted process infers from continue_to
ResumeIdx == (Nearest(g.resume.to) - 1) % NumWaypoints

\* the first pass of that process, and the pass after its first dwell
ZeroLengthPass == ZeroLengthResume /\ sim.p.idx = ResumeIdx
PassAfterDwell ==
    /\ ZeroLengthResume /\ sim.p.idx = ResumeIdx + 1
    /\ sim.p.pc \in {"segment", "move", "wait_tick", "arrive", "arrived",
                     "wait_dwell"}

\* the segment runs from the target to the target: the motion loop is not
\* entered, no handler runs, position and target stay where they were
ZeroLengthSegmentSkipsLoop ==
    ZeroLengthPass =>
        /\ sim.p.pc \notin {"move", "wait_tick", "handler"}
        /\ sim.p.pc \in {"segment", "arrive", "arrived", "wait_dwell"} =>
              /\ sim.p.current_pos = g.resume.to
              /\ sim.p.target_pos = g.resume.to
        /\ state.current_pos = g.resume.to
        /\ state.target_pos = g.resume.to

\* the dwell starts at the instant the segment started and lasts
\* wait_duration / current_factor / current_factor
ZeroLengthDwell ==
    (ZeroLengthPass /\ sim.p.pc = "wait_dwell") =>
        sim.p.wake = sim.p.start_time + DwellTime(sim.p.current_factor)

\* after the dwell the segment leads from the target to the waypoint after it
NextWaypointAfterDwell ==
    PassAfterDwell =>
        /\ sim.p.current_pos = g.resume.to
        /\ sim.p.target_pos = Waypoint(Nearest(g.resume.to) + 1)
        /\ sim.p.target_pos # g.resume.to

\* no step of the simulation thread in the zero-length pass clears the flag
ZeroLengthKeepsRunning ==
    (ZeroLengthPass /\ SimulationStep) => state'.running = state.running

\* C27: in main.py a factor change detected while the entity is dwelling or
\* has not started (the last published position equals the last published
\* target) starts a process with a zero-length segment that completes
\* without a fault: the motion loop body is skipped, so no division by
\* total_duration = 0 is evaluated, state.running stays as it is, the
\* position stays at the target, and after a dwell the process goes on to
\* the next waypoint.
C27_ZeroLengthSegment ==
    /\ [](ZeroLengthSegmentSkipsLoop /\ ZeroLengthDwell
          /\ NextWaypointAfterDwell)
    /\ [][ZeroLengthKeepsRunning]_vars

\* the factor changed during the dwell at the third waypoint; the restarted
\* process dwelt there again and is on its way to the fourth
C27_Witness ==
    /\ PassAfterDwell
    /\ g.resume.to = Waypoint(2)
    /\ sim.p.pc = "wait_tick"
    /\ state.target_pos = Waypoint(3)
    /\ state.running

\* the same for a factor changed before the first process had started
C27_NotStarted ==
    /\ PassAfterDwell
    /\ g.resume.to = Waypoint(0)
    /\ g.rebuilds = 1
    /\ sim.p.pc = "wait_tick"
    /\ state.target_pos = Waypoint(1)
    /\ state.running

\* a <= b and a = b for fractions with positive denominators
FracLeq(a, b) == a.n * b.d <= b.n * a.d
FracEq(a, b) == a.n * b.d = b.n * a.d

\* D / (150 * f) for the segment, and 2.0 / f, in time units
IdealTravel ==
    Frac(TimeScale * sim.dist10 * sim.current_factor.d, sim.current_factor.n)
IdealDwell ==
    Frac(wait_duration * UnitsPerSecond * sim.current_factor.d,
         sim.current_factor.n)
\* D rounded up to the next tenth of a pixel
IdealTravelAbove ==
    Frac(TimeScale * (sim.dist10 + 1) * sim.current_factor.d,
         sim.current_factor.n)

\* the wall-clock time of the segment, of one tick and of the dwell on the
\* engine the process runs on
WallTravel == WallDelay(sim.arrival - sim.start_time, sim.env_factor)
WallTick == WallDelay(vehicle_update_interval, sim.env_factor)
WallDwell == WallDelay(sim.wake - sim.arrival, sim.env_factor)

FracSum(a, b) == Frac(a.n * b.d + b.n * a.d, a.d * b.d)

SegmentOver == variant = "segment" /\ sim.pc \in {"wait_dwell", "pass"}

\* C28 as stated: in main.py, on RealtimeEnvironment(factor=f) with a
\* process that reads the same f, the wall-clock time of a segment of
\* length D is D / (150 * f) and the wall-clock dwell is 2.0 / f.
C28_WallTimesExact ==
    SegmentOver => /\ FracEq(WallTravel, IdealTravel)
                   /\ FracEq(WallDwell, IdealDwell)

\* C28: in main.py, on RealtimeEnvironment(factor=f) with a process that
\* reads the same f, the wall-clock time of a segment of length D is
\* D / (150 * f) rounded up to whole ticks of f / 360 wall-clock seconds,
\* or one tick more when D / (150 * f) is a whole number of ticks: it lies
\* between D / (150 * f) and D / (150 * f) + f / 360; the wall-clock dwell
\* is 2.0 / f; for f in {1, 2}.
C28_WallTimesWithinTick ==
    SegmentOver => /\ FracLeq(IdealTravel, WallTravel)
                   /\ FracLeq(WallTravel, FracSum(IdealTravelAbove, WallTick))
                   /\ FracEq(WallDwell, IdealDwell)

\* the segment of 500 pixels at f = 1 took 1201 ticks, one more than
\* 500 / 150 s, and the dwell after it is over
C28_Witness ==
    /\ variant = "segment" /\ sim.pc = "pass"
    /\ sim.current_factor = Frac(1, 1)
    /\ sim.dist10 = 5000
    /\ sim.arrival - sim.start_time = 1201 * vehicle_update_interval
    /\ sim.now = sim.arrival + wait_duration * UnitsPerSecond

====
